---- MODULE Spec2Model ----
(***************************************************************************)
(* MarketEngine (src/market_engine.py): a single-instrument limit order    *)
(* book with price/time-priority matching, market sweeps, a non-mutating   *)
(* sweep simulation and a price-impact estimate.                           *)
(*                                                                         *)
(* Numbers.  The code works on Python floats.  The model keeps exact       *)
(* integers: sizes and quantities are whole lots, prices are measured in   *)
(* half ticks and every order price is a whole tick (an even number), so   *)
(* the midpoint 0.5 * (a + b) of two order prices is exact.  Quotients     *)
(* (vwap, impact) are kept as exact fractions [num, den].                  *)
(***************************************************************************)
EXTENDS Integers, Sequences, FiniteSets, TLC

\* ---------------------------------------------------------------- bounds
MaxId == 3          \* ids the allocator may hand out in one run
MaxQty == 3         \* largest quantity offered to the market-sweep operations
MaxSnap == 2        \* longest snapshot offered to load_snapshot
MaxTick == 1        \* ticks one run may take
MaxBots == 2        \* bots one run may register
MaxBotIds == 2      \* ids the bots' callbacks may allocate in one run
MaxHeldIds == 2     \* ids allocated in a run whose caller keeps and rewrites its dicts
MaxGiven == 2       \* orders in a book a caller makes up and passes to simulate_market_order
MaxGivenId == 2     \* ids the caller puts on the orders of such a book
MaxSlices == 3      \* slices a SplittingBot order is cut into
MaxBotOrders == 2   \* orders placed around a running SplittingBot
MaxAdaptTicks == 3  \* ticks an AdaptiveSplittingBot is stepped through

VARIABLES
    order_book,     \* self.order_book: list of order dicts
    trade_history,  \* self.trade_history: list of trade dicts
    bots,           \* self.bots: the number of registered bots
    true_price,     \* self.true_price
    true_history,   \* self.true_history
    tick,           \* self.tick
    order_id,       \* self._order_id: the id allocator
    pc,             \* where the driver is: "idle", "bots" (inside step's callback loop), "match" (inside _match_orders' loop)
    cur,            \* step's loop variable: the position of the bot whose on_tick is running
    instep,         \* TRUE while step is on the call stack
    last,           \* the engine call that has just returned to the driver or bot: [op, side, quantity]
    ret,            \* what that call returned (None when it returns nothing)
    pre,            \* the engine's fields when that call, or the running matching pass, was entered
    crossed,        \* that matching pass, one record per loop iteration: the book it found, the trade it appended
    step_bots,      \* step's list(self.bots): how many bots the running step iterates over
    called,         \* the positions of the bots whose on_tick the running (or just returned) step has invoked, in order
    raised,         \* the position of the first bot whose on_tick raised in that step, 0 when none did
    other,          \* the fields of a second MarketEngine, the one the driver is not calling
    sb,             \* the fields of the test's SplittingBot
    held            \* the dicts the caller holds from that call: those it passed (given), those returned to it (got)

vars == <<order_book, trade_history, bots, true_price, true_history, tick,
          order_id, pc, cur, instep, last, ret, pre, crossed, step_bots, called,
          raised, other, sb, held>>

\* What step's callback loop keeps of its own.
loopvars == <<step_bots, called, raised>>

\* ---------------------------------------------------------------- inputs
\* The grid of order prices (whole ticks, in half ticks) and of order sizes.
\* place_order and load_snapshot take any float: a size of 0 too.
Prices == {2, 4}
Sizes == {0, 1, 2}
InitPrice == 4                  \* init_price, in half ticks
Sides == {"buy", "sell"}
Quantities == 0..MaxQty
PriceMoves == {0 - 2, 2}         \* samples of rng.normal(0, vol), in half ticks
OrderInputs == [side : Sides, price : Prices, size : Sizes]
None == "None"
\* Python's None where the code may also return a number.
Absent == [absent |-> TRUE]
\* place_order converts the size with float() and checks nothing: the size may be
\* negative too.
AnySizes == Sizes \cup {0 - 1}
AnyOrders == [side : Sides, price : Prices, size : AnySizes]

\* ---------------------------------------------------------------- helpers
\* Python's min(a, b): b when b < a, else a.
Min(a, b) == IF b < a THEN b ELSE a

SideOrders(book, side) == SelectSeq(book, LAMBDA o : o.side = side)

\* The positions (in list order) of the orders of `book` that satisfy the filter
\* o['side'] == side.
SideIdx(book, side) ==
    SelectSeq([i \in 1..Len(book) |-> i], LAMBDA i : book[i].side = side)

\* (mutant) the later id first among equal prices
KeyLessLifo(a, b, descending) ==
    IF descending
    THEN a.price > b.price \/ (a.price = b.price /\ a.id > b.id)
    ELSE a.price < b.price \/ (a.price = b.price /\ a.id > b.id)

\* A sort key (price, _id) when ascending, (-price, _id) when descending.
KeyLess(a, b, descending) ==
    IF descending
    THEN a.price > b.price \/ (a.price = b.price /\ a.id < b.id)
    ELSE a.price < b.price \/ (a.price = b.price /\ a.id < b.id)

\* Python's sorted() is stable: an element goes behind every element it is not
\* strictly before.  The lists sorted here hold positions of `book`: a position
\* stands for the dict object the Python lists share with the book.
RECURSIVE InsertSorted(_, _, _, _)
InsertSorted(book, i, s, descending) ==
    IF s = <<>> THEN <<i>>
    ELSE IF KeyLess(book[i], book[s[Len(s)]], descending)
         THEN Append(InsertSorted(book, i, SubSeq(s, 1, Len(s) - 1), descending), s[Len(s)])
         ELSE Append(s, i)

RECURSIVE SortedIdx(_, _, _)
SortedIdx(book, idx, descending) ==
    IF idx = <<>> THEN <<>>
    ELSE InsertSorted(book, idx[Len(idx)],
                      SortedIdx(book, SubSeq(idx, 1, Len(idx) - 1), descending),
                      descending)

\* (mutant) the two sort directions swapped
sorted_book_idx_swapped(book, side) == SortedIdx(book, SideIdx(book, side), side # "buy")

\* _sorted_book(side), as positions of the book: buys by (-price, _id), any
\* other side by (price, _id).
sorted_book_idx(book, side) == SortedIdx(book, SideIdx(book, side), side = "buy")

\* _sorted_book(side), as the orders themselves.
sorted_book(book, side) ==
    LET s == sorted_book_idx(book, side) IN [k \in 1..Len(s) |-> book[s[k]]]

\* for real in book: if real['_id'] == id: real['size'] -= take; break
RECURSIVE ReduceById(_, _, _)
ReduceById(book, id, take) ==
    IF book = <<>> THEN <<>>
    ELSE IF book[1].id = id
         THEN <<[book[1] EXCEPT !.size = @ - take]>> \o Tail(book)
         ELSE <<book[1]>> \o ReduceById(Tail(book), id, take)

\* obj['size'] -= take on the dict object at position i
ReduceAt(book, i, take) == [book EXCEPT ![i].size = @ - take]

\* (mutant) size >= 0: an emptied order stays
PurgeKeepsEmpty(book) == SelectSeq(book, LAMBDA o : o.size >= 0)

\* [o for o in book if o['size'] > 0]
Purge(book) == SelectSeq(book, LAMBDA o : o.size > 0)

\* total_cost / executed as an exact fraction
Frac(n, d) == [num |-> n, den |-> d]

Snap == [order_book |-> order_book, order_id |-> order_id,
         trade_history |-> trade_history, tick |-> tick]

\* No call has just returned, and nothing is remembered of the last one.
NoCall == [op |-> "none", side |-> None, quantity |-> 0]
NoPass == [order_book |-> <<>>, order_id |-> 0, trade_history |-> <<>>, tick |-> 0]

\* A dict in the caller's hands. It is the caller's own object (shares = NoShare)
\* or the very object the live book stores under the id "shares"; "order" is
\* what the caller reads in it.
NoShare == 0 - 1
Own(order) == [shares |-> NoShare, order |-> order]
Owns(orders) == [k \in 1..Len(orders) |-> Own(orders[k])]
NoHeld == [given |-> <<>>, got |-> <<>>]

\* The driver makes its calls between steps, once it is done with the result of
\* its last call.
DriverCan == pc = "idle" /\ last = NoCall

\* (mutant) for bot in self.bots: the loop walks the live list
LoopBotsLive == bots

\* for bot in list(self.bots): the loop walks the copy made when it started.
LoopBots == step_bots

\* An engine method is called by the driver, or by the bot whose on_tick is
\* running.
CanCall == last = NoCall /\ (pc = "idle" \/ (pc = "bots" /\ cur <= LoopBots))

\* What every call that returns at once leaves behind for its caller.
Returned(op, side, quantity, result) ==
    /\ last' = [op |-> op, side |-> side, quantity |-> quantity]
    /\ ret' = result
    /\ pre' = Snap
    /\ crossed' = <<>>

\* The fields of an engine, and those that __init__ gives a new one.
Self == [order_book |-> order_book, trade_history |-> trade_history,
         bots |-> bots, true_price |-> true_price, true_history |-> true_history,
         tick |-> tick, order_id |-> order_id]

NewEngine == [order_book |-> <<>>, trade_history |-> <<>>, bots |-> 0,
              true_price |-> InitPrice, true_history |-> <<InitPrice>>,
              tick |-> 0, order_id |-> 0]

\* SplittingBot.__init__ (slice_size=None).
NoBot == [active |-> FALSE, side |-> None, total |-> 0, remaining |-> 0,
          slices |-> 0, slice |-> 0, executions |-> <<>>]

\* ---------------------------------------------------------------- Init
Init ==
    /\ order_book = <<>>
    /\ trade_history = <<>>
    /\ bots = 0
    /\ true_price = InitPrice
    /\ true_history = <<InitPrice>>
    /\ tick = 0
    /\ order_id = 0
    /\ pc = "idle"
    /\ cur = 0
    /\ instep = FALSE
    /\ last = NoCall
    /\ ret = None
    /\ pre = NoPass
    /\ crossed = <<>>
    /\ step_bots = 0
    /\ called = <<>>
    /\ raised = 0
    /\ held = NoHeld
    /\ other = NewEngine
    /\ sb = NoBot

\* ---------------------------------------------------------------- register_bot
\* Called by the driver, or by a bot through the engine it is handed.
register_bot ==
    /\ CanCall
    /\ bots < MaxBots
    /\ bots' = bots + 1
    /\ Returned("register_bot", None, 0, None)
    /\ UNCHANGED <<order_book, trade_history, true_price, true_history, tick,
                   order_id, pc, cur, instep>>
    /\ UNCHANGED loopvars
    /\ UNCHANGED held
    /\ UNCHANGED other
    /\ UNCHANGED sb

\* ---------------------------------------------------------------- place_order
\* o = dict(order) with price, size, side converted and '_id' set.
NewOrder(order, id) ==
    [side |-> order.side, price |-> order.price, size |-> order.size, id |-> id]

\* (mutant) the order is matched against the book as soon as it is placed
place_order_matches(order) ==
    /\ CanCall
    /\ order_id < MaxId
    /\ LET placed == Append(order_book, NewOrder(order, order_id))
           bi == sorted_book_idx(placed, "buy")
           si == sorted_book_idx(placed, "sell")
           crossing == IF bi = <<>> \/ si = <<>> THEN FALSE
                       ELSE placed[bi[1]].price >= placed[si[1]].price
       IN  IF ~crossing
           THEN order_book' = placed /\ UNCHANGED trade_history
           ELSE LET traded == Min(placed[bi[1]].size, placed[si[1]].size) IN
                /\ order_book' =
                      Purge(ReduceAt(ReduceAt(placed, bi[1], traded), si[1], traded))
                /\ trade_history' =
                      Append(trade_history,
                             [price |-> (placed[bi[1]].price + placed[si[1]].price) \div 2,
                              size |-> traded, tick |-> tick])
    /\ order_id' = order_id + 1
    /\ Returned("place_order", order.side, order.size, None)
    /\ UNCHANGED <<bots, true_price, true_history, tick, pc, cur, instep>>
    /\ UNCHANGED loopvars
    /\ held' = [given |-> <<Own(order)>>, got |-> <<>>]
    /\ UNCHANGED other
    /\ UNCHANGED sb

\* (mutant) MarketEngine._order_id += 1: one allocator for every engine
place_order_global(order) ==
    /\ CanCall
    /\ order_id < MaxId
    /\ order_book' = Append(order_book, NewOrder(order, order_id))
    /\ order_id' = order_id + 1
    /\ other' = [other EXCEPT !.order_id = order_id + 1]
    /\ Returned("place_order", order.side, order.size, None)
    /\ UNCHANGED <<trade_history, bots, true_price, true_history, tick, pc, cur,
                   instep>>
    /\ UNCHANGED loopvars
    /\ held' = [given |-> <<Own(order)>>, got |-> <<>>]
    /\ UNCHANGED sb

\* (mutant) o = order: the engine stores the caller's dict itself
place_order_aliases(order) ==
    /\ CanCall
    /\ order_id < MaxId
    /\ order_book' = Append(order_book, NewOrder(order, order_id))
    /\ order_id' = order_id + 1
    /\ Returned("place_order", order.side, order.size, None)
    /\ UNCHANGED <<trade_history, bots, true_price, true_history, tick, pc, cur,
                   instep>>
    /\ UNCHANGED loopvars
    /\ held' = [given |-> <<[shares |-> order_id, order |-> NewOrder(order, order_id)]>>,
                got |-> <<>>]
    /\ UNCHANGED other
    /\ UNCHANGED sb

place_order(order) ==
    /\ CanCall
    /\ order_id < MaxId
    /\ order_book' = Append(order_book, NewOrder(order, order_id))
    /\ order_id' = order_id + 1
    /\ Returned("place_order", order.side, order.size, None)
    /\ UNCHANGED <<trade_history, bots, true_price, true_history, tick, pc, cur,
                   instep>>
    /\ UNCHANGED loopvars
    /\ held' = [given |-> <<Own(order)>>, got |-> <<>>]
    /\ UNCHANGED other
    /\ UNCHANGED sb

\* ---------------------------------------------------------------- load_snapshot
\* The new book: one order per record, ids handed out in input order.
SnapshotBook(snapshot, first_id) ==
    [k \in 1..Len(snapshot) |-> NewOrder(snapshot[k], first_id + k - 1)]

\* What load_snapshot leaves behind for its caller: the list it was given too.
Loaded(snapshot) ==
    /\ last' = [op |-> "load_snapshot", side |-> None, quantity |-> Len(snapshot),
                snapshot |-> snapshot]
    /\ ret' = None
    /\ pre' = Snap
    /\ crossed' = <<>>

\* (mutant) self._order_id = 0: the ids start again with every snapshot
load_snapshot_restarts(snapshot) ==
    /\ DriverCan
    /\ order_id + Len(snapshot) <= MaxId
    /\ order_book' = SnapshotBook(snapshot, 0)
    /\ order_id' = Len(snapshot)
    /\ Loaded(snapshot)
    /\ UNCHANGED <<trade_history, bots, true_price, true_history, tick, pc, cur,
                   instep>>
    /\ UNCHANGED loopvars
    /\ held' = [given |-> Owns(snapshot), got |-> <<>>]
    /\ UNCHANGED other
    /\ UNCHANGED sb

\* (mutant) self.order_book = [] is missing: the snapshot extends the book
load_snapshot_extends(snapshot) ==
    /\ DriverCan
    /\ order_id + Len(snapshot) <= MaxId
    /\ order_book' = order_book \o SnapshotBook(snapshot, order_id)
    /\ order_id' = order_id + Len(snapshot)
    /\ Loaded(snapshot)
    /\ UNCHANGED <<trade_history, bots, true_price, true_history, tick, pc, cur,
                   instep>>
    /\ UNCHANGED loopvars
    /\ held' = [given |-> Owns(snapshot), got |-> <<>>]
    /\ UNCHANGED other
    /\ UNCHANGED sb

load_snapshot(snapshot) ==
    /\ DriverCan
    /\ order_id + Len(snapshot) <= MaxId
    /\ order_book' = SnapshotBook(snapshot, order_id)
    /\ order_id' = order_id + Len(snapshot)
    /\ Loaded(snapshot)
    /\ UNCHANGED <<trade_history, bots, true_price, true_history, tick, pc, cur,
                   instep>>
    /\ UNCHANGED loopvars
    /\ held' = [given |-> Owns(snapshot), got |-> <<>>]
    /\ UNCHANGED other
    /\ UNCHANGED sb

\* ---------------------------------------------------------------- _match_orders
\* (mutant) best_buy.price <= best_sell.price ends the loop
SettledAtEqual(book) ==
    LET buys == sorted_book(book, "buy")
        sells == sorted_book(book, "sell")
    IN  IF buys = <<>> \/ sells = <<>> THEN TRUE
        ELSE buys[1].price <= sells[1].price

\* The loop's exit tests: not buys, not sells, best_buy.price < best_sell.price.
Settled(book) ==
    LET buys == sorted_book(book, "buy")
        sells == sorted_book(book, "sell")
    IN  IF buys = <<>> \/ sells = <<>> THEN TRUE
        ELSE buys[1].price < sells[1].price

\* (mutant) the trade priced at the resting sell's price
MatchBodySellPrice(book, now) ==
    LET bi == sorted_book_idx(book, "buy")[1]
        si == sorted_book_idx(book, "sell")[1]
        trade_size == Min(book[bi].size, book[si].size)
    IN  [trade |-> [price |-> book[si].price, size |-> trade_size, tick |-> now],
         book |-> Purge(ReduceAt(ReduceAt(book, bi, trade_size), si, trade_size))]

\* (mutant) best_sell['size'] -= trade_size left out
MatchBodyBuyOnly(book, now) ==
    LET bi == sorted_book_idx(book, "buy")[1]
        si == sorted_book_idx(book, "sell")[1]
        trade_size == Min(book[bi].size, book[si].size)
        trade_price == (book[bi].price + book[si].price) \div 2
    IN  [trade |-> [price |-> trade_price, size |-> trade_size, tick |-> now],
         book |-> Purge(ReduceAt(book, bi, trade_size))]

\* One pass of the loop body on a book that is not settled: the trade, and the
\* book with both sizes reduced and non-positive sizes purged.
MatchBody(book, now) ==
    LET bi == sorted_book_idx(book, "buy")[1]
        si == sorted_book_idx(book, "sell")[1]
        best_buy == book[bi]
        best_sell == book[si]
        trade_size == Min(best_buy.size, best_sell.size)
        trade_price == (best_buy.price + best_sell.price) \div 2
    IN  [trade |-> [price |-> trade_price, size |-> trade_size, tick |-> now],
         book |-> Purge(ReduceAt(ReduceAt(book, bi, trade_size), si, trade_size))]

MatchEnter ==
    /\ pc' = "match"
    /\ pre' = Snap
    /\ crossed' = <<>>
    /\ UNCHANGED <<order_book, trade_history, bots, true_price, true_history,
                   tick, order_id, cur, last, ret>>
    /\ UNCHANGED loopvars
    /\ UNCHANGED held
    /\ UNCHANGED other
    /\ UNCHANGED sb

\* _match_orders() called by the driver.
match_orders ==
    /\ DriverCan
    /\ instep' = FALSE
    /\ MatchEnter

\* (mutant) self.trade_history = [trade]: the log is overwritten
match_iter_overwrites ==
    /\ pc = "match"
    /\ ~Settled(order_book)
    /\ LET m == MatchBody(order_book, tick) IN
        /\ trade_history' = <<m.trade>>
        /\ order_book' = m.book
        /\ crossed' = Append(crossed, [book |-> order_book, trade |-> m.trade])
    /\ UNCHANGED <<bots, true_price, true_history, tick, order_id, pc, cur,
                   instep, last, ret, pre>>
    /\ UNCHANGED loopvars
    /\ UNCHANGED held
    /\ UNCHANGED other
    /\ UNCHANGED sb

match_iter ==
    /\ pc = "match"
    /\ ~Settled(order_book)
    /\ LET m == MatchBody(order_book, tick) IN
        /\ trade_history' = Append(trade_history, m.trade)
        /\ order_book' = m.book
        /\ crossed' = Append(crossed, [book |-> order_book, trade |-> m.trade])
    /\ UNCHANGED <<bots, true_price, true_history, tick, order_id, pc, cur,
                   instep, last, ret, pre>>
    /\ UNCHANGED loopvars
    /\ UNCHANGED held
    /\ UNCHANGED other
    /\ UNCHANGED sb

match_return ==
    /\ pc = "match"
    /\ Settled(order_book)
    /\ pc' = "idle"
    /\ instep' = FALSE
    /\ last' = [op |-> IF instep THEN "step" ELSE "_match_orders",
                side |-> None, quantity |-> 0]
    /\ ret' = None
    /\ cur' = 0
    /\ UNCHANGED <<order_book, trade_history, bots, true_price, true_history,
                   tick, order_id, pre, crossed>>
    /\ UNCHANGED loopvars
    /\ UNCHANGED held
    /\ UNCHANGED other
    /\ UNCHANGED sb

\* ---------------------------------------------------------------- step
\* The loop goes on to the bot at position k, if the list has one.
Invoke(k) == IF k <= LoopBots THEN Append(called, k) ELSE called

\* (mutant) the history is appended before the price moves
step_appends_old(move) ==
    /\ DriverCan
    /\ tick < MaxTick
    /\ tick' = tick + 1
    /\ true_price' = true_price + move
    /\ true_history' = Append(true_history, true_price)
    /\ pc' = "bots"
    /\ cur' = 1
    /\ instep' = TRUE
    /\ step_bots' = bots
    /\ called' = IF bots >= 1 THEN <<1>> ELSE <<>>
    /\ raised' = 0
    /\ UNCHANGED <<order_book, trade_history, bots, order_id, last, ret, pre,
                   crossed>>
    /\ UNCHANGED held
    /\ UNCHANGED other
    /\ UNCHANGED sb

step(move) ==
    /\ DriverCan
    /\ tick < MaxTick
    /\ tick' = tick + 1
    /\ true_price' = true_price + move
    /\ true_history' = Append(true_history, true_price + move)
    /\ pc' = "bots"
    /\ cur' = 1
    /\ instep' = TRUE
    /\ step_bots' = bots
    /\ called' = IF bots >= 1 THEN <<1>> ELSE <<>>
    /\ raised' = 0
    /\ UNCHANGED <<order_book, trade_history, bots, order_id, last, ret, pre,
                   crossed>>
    /\ UNCHANGED held
    /\ UNCHANGED other
    /\ UNCHANGED sb

\* bot.on_tick(self) returns.
bot_return ==
    /\ pc = "bots"
    /\ cur <= LoopBots
    /\ last = NoCall
    /\ cur' = cur + 1
    /\ called' = Invoke(cur + 1)
    /\ UNCHANGED <<order_book, trade_history, bots, true_price, true_history,
                   tick, order_id, pc, instep, last, ret, pre, crossed,
                   step_bots, raised>>
    /\ UNCHANGED held
    /\ UNCHANGED other
    /\ UNCHANGED sb

\* (mutant) no try/except: the exception leaves the loop and step
bot_raise_propagates ==
    /\ pc = "bots"
    /\ cur <= LoopBots
    /\ last = NoCall
    /\ pc' = "idle"
    /\ cur' = 0
    /\ instep' = FALSE
    /\ last' = [op |-> "step", side |-> None, quantity |-> 0]
    /\ ret' = "Exception"
    /\ raised' = IF raised = 0 THEN cur ELSE raised
    /\ UNCHANGED <<order_book, trade_history, bots, true_price, true_history,
                   tick, order_id, pre, crossed, step_bots, called>>
    /\ UNCHANGED held
    /\ UNCHANGED other
    /\ UNCHANGED sb

\* bot.on_tick(self) raises: except Exception: pass.
bot_raise ==
    /\ pc = "bots"
    /\ cur <= LoopBots
    /\ last = NoCall
    /\ cur' = cur + 1
    /\ called' = Invoke(cur + 1)
    /\ raised' = IF raised = 0 THEN cur ELSE raised
    /\ UNCHANGED <<order_book, trade_history, bots, true_price, true_history,
                   tick, order_id, pc, instep, last, ret, pre, crossed,
                   step_bots>>
    /\ UNCHANGED held
    /\ UNCHANGED other
    /\ UNCHANGED sb

\* The callback loop is over: self._match_orders().
step_match ==
    /\ pc = "bots"
    /\ cur > LoopBots
    /\ last = NoCall
    /\ UNCHANGED instep
    /\ MatchEnter

\* ---------------------------------------------------------------- market sweeps
PassiveSide(side) == IF side = "buy" THEN "sell" ELSE "buy"

\* (mutant) take = o['size']: the quantity left is not looked at
RECURSIVE SweepLoopTakesAll(_, _)
SweepLoopTakesAll(passive, st) ==
    IF passive = <<>> \/ st.qty_remaining <= 0 THEN st
    ELSE LET o == st.book[passive[1]]
             take == o.size
         IN  SweepLoopTakesAll(Tail(passive),
                               [book |-> ReduceById(st.book, o.id, take),
                                qty_remaining |-> st.qty_remaining - take,
                                total_cost |-> st.total_cost + take * o.price,
                                executed |-> st.executed + take])

\* The loop of execute_market_order and of simulate_market_order over the
\* sorted passive list (positions of `book`), st = the loop's variables.
RECURSIVE SweepLoop(_, _)
SweepLoop(passive, st) ==
    IF passive = <<>> \/ st.qty_remaining <= 0 THEN st
    ELSE LET o == st.book[passive[1]]
             take == Min(st.qty_remaining, o.size)
         IN  SweepLoop(Tail(passive),
                       [book |-> ReduceById(st.book, o.id, take),
                        qty_remaining |-> st.qty_remaining - take,
                        total_cost |-> st.total_cost + take * o.price,
                        executed |-> st.executed + take])

SweepStart(book, quantity) ==
    [book |-> book, qty_remaining |-> quantity, total_cost |-> 0, executed |-> 0]

SweepResult(st, quantity) ==
    [executed_size |-> st.executed,
     unfilled_size |-> quantity - st.executed,
     vwap |-> IF st.executed > 0 THEN Frac(st.total_cost, st.executed) ELSE Absent,
     book |-> Purge(st.book)]

\* execute_market_order on `book`: the returned fields and the purged book.
ExecuteSweep(book, side, quantity) ==
    SweepResult(SweepLoop(sorted_book_idx(book, PassiveSide(side)),
                          SweepStart(book, quantity)),
                quantity)

\* (mutant) the sweep is recorded as a trade
execute_market_order_logs(side, quantity) ==
    /\ CanCall
    /\ LET r == ExecuteSweep(order_book, side, quantity) IN
        /\ order_book' = r.book
        /\ trade_history' =
              IF r.executed_size > 0
              THEN Append(trade_history,
                          [price |-> r.vwap.num \div r.vwap.den,
                           size |-> r.executed_size, tick |-> tick])
              ELSE trade_history
        /\ Returned("execute_market_order", side, quantity,
                    [executed_size |-> r.executed_size,
                     unfilled_size |-> r.unfilled_size, vwap |-> r.vwap])
    /\ UNCHANGED <<bots, true_price, true_history, tick, order_id,
                   pc, cur, instep>>
    /\ UNCHANGED loopvars
    /\ UNCHANGED held
    /\ UNCHANGED other
    /\ UNCHANGED sb

execute_market_order(side, quantity) ==
    /\ CanCall
    /\ LET r == ExecuteSweep(order_book, side, quantity) IN
        /\ order_book' = r.book
        /\ Returned("execute_market_order", side, quantity,
                    [executed_size |-> r.executed_size,
                     unfilled_size |-> r.unfilled_size, vwap |-> r.vwap])
    /\ UNCHANGED <<trade_history, bots, true_price, true_history, tick, order_id,
                   pc, cur, instep>>
    /\ UNCHANGED loopvars
    /\ UNCHANGED held
    /\ UNCHANGED other
    /\ UNCHANGED sb

\* (mutant) the passive sells sorted like buys, the passive buys like sells
SimPassiveIdxSwapped(sim_book, passive_side) ==
    SortedIdx(sim_book, SideIdx(sim_book, passive_side), passive_side = "sell")

\* simulate_market_order's own sort of the passive side of sim_book.
SimPassiveIdx(sim_book, passive_side) ==
    SortedIdx(sim_book, SideIdx(sim_book, passive_side), passive_side # "sell")

\* simulate_market_order on sim_book, a list of copies of the orders of `book`.
SimulateSweep(book, side, quantity) ==
    SweepResult(SweepLoop(SimPassiveIdx(book, PassiveSide(side)),
                          SweepStart(book, quantity)),
                quantity)

\* (mutant) sim_book = self.order_book: the sweep reduces the live orders
simulate_market_order_live(side, quantity) ==
    /\ CanCall
    /\ order_book' = SweepLoop(SimPassiveIdx(order_book, PassiveSide(side)),
                               SweepStart(order_book, quantity)).book
    /\ Returned("simulate_market_order", side, quantity,
                SimulateSweep(order_book, side, quantity))
    /\ UNCHANGED <<trade_history, bots, true_price, true_history, tick,
                   order_id, pc, cur, instep>>
    /\ UNCHANGED loopvars
    /\ held' = [given |-> <<>>, got |-> Owns(ret'.book)]
    /\ UNCHANGED other
    /\ UNCHANGED sb

\* simulate_market_order(side, quantity, book=None)
simulate_market_order(side, quantity) ==
    /\ CanCall
    /\ Returned("simulate_market_order", side, quantity,
                SimulateSweep(order_book, side, quantity))
    /\ UNCHANGED <<order_book, trade_history, bots, true_price, true_history, tick,
                   order_id, pc, cur, instep>>
    /\ UNCHANGED loopvars
    /\ held' = [given |-> <<>>, got |-> Owns(ret'.book)]
    /\ UNCHANGED other
    /\ UNCHANGED sb

\* simulate_market_order(side, quantity, book=sim_book): the caller passes the
\* book it got from its last call; the sweep runs on copies of its dicts.
HeldBook == [k \in 1..Len(held.got) |-> held.got[k].order]

simulate_market_order_book(side, quantity) ==
    /\ pc = "idle"
    /\ last.op \in {"copy_book", "simulate_market_order",
                     "simulate_market_order_book", "write"}
    /\ Returned("simulate_market_order_book", side, quantity,
                SimulateSweep(HeldBook, side, quantity))
    /\ held' = [given |-> held.got, got |-> Owns(ret'.book)]
    /\ UNCHANGED <<order_book, trade_history, bots, true_price, true_history, tick,
                   order_id, pc, cur, instep>>
    /\ UNCHANGED loopvars
    /\ UNCHANGED other
    /\ UNCHANGED sb

\* simulate_market_order(side, quantity, book=book) on a list of order dicts
\* the caller made up itself, with the ids the caller chose.
simulate_market_order_given(book, side, quantity) ==
    /\ CanCall
    /\ last' = [op |-> "simulate_market_order_given", side |-> side,
                quantity |-> quantity, book |-> book]
    /\ ret' = SimulateSweep(book, side, quantity)
    /\ pre' = Snap
    /\ crossed' = <<>>
    /\ held' = [given |-> Owns(book), got |-> Owns(ret'.book)]
    /\ UNCHANGED <<order_book, trade_history, bots, true_price, true_history, tick,
                   order_id, pc, cur, instep>>
    /\ UNCHANGED loopvars
    /\ UNCHANGED other
    /\ UNCHANGED sb

\* (mutant) the second sweep runs on the book of the first call, not on the
\* book the first call returned
simulate_market_order_chained_stale(side, quantity) ==
    /\ pc = "idle"
    /\ last.op = "simulate_market_order_given"
    /\ last' = [op |-> "simulate_market_order_chained", side |-> side,
                quantity |-> quantity, first |-> last, first_ret |-> ret]
    /\ ret' = SimulateSweep(last.book, side, quantity)
    /\ pre' = Snap
    /\ crossed' = <<>>
    /\ held' = [given |-> held.got, got |-> Owns(ret'.book)]
    /\ UNCHANGED <<order_book, trade_history, bots, true_price, true_history, tick,
                   order_id, pc, cur, instep>>
    /\ UNCHANGED loopvars
    /\ UNCHANGED other
    /\ UNCHANGED sb

\* res = simulate_market_order(side, q1, book=book) followed by
\* simulate_market_order(side, q2, book=res['book']): the second call of a
\* chain, remembered together with the first call and its result.
simulate_market_order_chained(side, quantity) ==
    /\ pc = "idle"
    /\ last.op = "simulate_market_order_given"
    /\ last' = [op |-> "simulate_market_order_chained", side |-> side,
                quantity |-> quantity, first |-> last, first_ret |-> ret]
    /\ ret' = SimulateSweep(HeldBook, side, quantity)
    /\ pre' = Snap
    /\ crossed' = <<>>
    /\ held' = [given |-> held.got, got |-> Owns(ret'.book)]
    /\ UNCHANGED <<order_book, trade_history, bots, true_price, true_history, tick,
                   order_id, pc, cur, instep>>
    /\ UNCHANGED loopvars
    /\ UNCHANGED other
    /\ UNCHANGED sb

\* sim_book = [dict(o) for o in engine.order_book]: the caller copies the book.
copy_book ==
    /\ CanCall
    /\ Returned("copy_book", None, 0, None)
    /\ held' = [given |-> <<>>, got |-> Owns(order_book)]
    /\ UNCHANGED <<order_book, trade_history, bots, true_price, true_history, tick,
                   order_id, pc, cur, instep>>
    /\ UNCHANGED loopvars
    /\ UNCHANGED other
    /\ UNCHANGED sb

\* d['size'] = size on a dict the caller holds: an assignment to the object,
\* seen through every reference to it.
WriteSize(book, id, size) ==
    [i \in 1..Len(book) |->
        IF book[i].id = id THEN [book[i] EXCEPT !.size = size] ELSE book[i]]

caller_writes(part, k, size) ==
    /\ pc = "idle"
    /\ last # NoCall
    /\ k \in 1..Len(held[part])
    /\ held' = [held EXCEPT ![part][k].order.size = size]
    /\ order_book' = IF held[part][k].shares = NoShare THEN order_book
                     ELSE WriteSize(order_book, held[part][k].shares, size)
    /\ last' = [op |-> "write", side |-> None, quantity |-> 0]
    /\ UNCHANGED <<trade_history, bots, true_price, true_history, tick, order_id,
                   pc, cur, instep, ret, pre, crossed>>
    /\ UNCHANGED loopvars
    /\ UNCHANGED other
    /\ UNCHANGED sb

\* ---------------------------------------------------------------- calculate_price_impact
BPS == 10000

RECURSIVE MaxPriceOf(_)
MaxPriceOf(s) ==
    IF Len(s) = 1 THEN s[1].price
    ELSE LET m == MaxPriceOf(Tail(s)) IN IF m > s[1].price THEN m ELSE s[1].price

RECURSIVE MinPriceOf(_)
MinPriceOf(s) ==
    IF Len(s) = 1 THEN s[1].price
    ELSE LET m == MinPriceOf(Tail(s)) IN IF m < s[1].price THEN m ELSE s[1].price

\* The fill loop of calculate_price_impact over the sorted orders `sims`.
RECURSIVE ImpactLoop(_, _)
ImpactLoop(sims, st) ==
    IF sims = <<>> \/ st.qty_remaining <= 0 THEN st
    ELSE LET o == sims[1]
             take == Min(st.qty_remaining, o.size)
         IN  ImpactLoop(Tail(sims),
                        [qty_remaining |-> st.qty_remaining - take,
                         total_cost |-> st.total_cost + take * o.price,
                         filled |-> st.filled + take])

\* A fraction with a positive denominator.
Normal(f) == IF f.den < 0 THEN Frac(0 - f.num, 0 - f.den) ELSE f

\* (mutant) the sort keys negated: the fill loop walks the worst prices first
ImpactSimsWorstFirst(book, side) ==
    LET idx == IF side = "buy"
               THEN SortedIdx(book, SideIdx(book, "sell"), TRUE)
               ELSE SortedIdx(book, SideIdx(book, "buy"), FALSE)
    IN  [k \in 1..Len(idx) |-> book[idx[k]]]

\* The orders the fill loop walks: asks by (price, _id) for a buy, bids by
\* (-price, _id) otherwise.
ImpactSims(book, side) ==
    LET idx == IF side = "buy"
               THEN SortedIdx(book, SideIdx(book, "sell"), FALSE)
               ELSE SortedIdx(book, SideIdx(book, "buy"), TRUE)
    IN  [k \in 1..Len(idx) |-> book[idx[k]]]

ImpactFill(book, side, quantity) ==
    ImpactLoop(ImpactSims(book, side),
               [qty_remaining |-> quantity, total_cost |-> 0, filled |-> 0])

\* (mutant) the two formulas swapped between the sides
ImpactBpsSwapped(side, st, mid) ==
    IF side = "buy"
    THEN Normal(Frac((st.filled * mid - st.total_cost) * BPS, st.filled * mid))
    ELSE Normal(Frac((st.total_cost - st.filled * mid) * BPS, st.filled * mid))

\* (avg_exec_price / mid - 1) * 10000 for a buy, (1 - avg_exec_price / mid) *
\* 10000 otherwise, with avg_exec_price = total_cost / filled.
ImpactBps(side, st, mid) ==
    IF side = "buy"
    THEN Normal(Frac((st.total_cost - st.filled * mid) * BPS, st.filled * mid))
    ELSE Normal(Frac((st.filled * mid - st.total_cost) * BPS, st.filled * mid))

\* (mutant) a missing side counts as a best price of 0 instead of ending the call
PriceImpactMissingAsZero(book, side, quantity) ==
    LET bids == SideOrders(book, "buy")
        asks == SideOrders(book, "sell")
        best_bid == IF bids = <<>> THEN 0 ELSE MaxPriceOf(bids)
        best_ask == IF asks = <<>> THEN 0 ELSE MinPriceOf(asks)
        mid == (best_bid + best_ask) \div 2
        st == ImpactFill(book, side, quantity)
    IN  IF st.filled = 0 THEN Frac(0, 1) ELSE ImpactBps(side, st, mid)

\* (mutant) the test filled == 0 left out: the division by zero
PriceImpactNoFillCheck(book, side, quantity) ==
    LET bids == SideOrders(book, "buy")
        asks == SideOrders(book, "sell")
    IN  IF bids = <<>> \/ asks = <<>> THEN Frac(0, 1)
        ELSE LET mid == (MaxPriceOf(bids) + MinPriceOf(asks)) \div 2
                 st == ImpactFill(book, side, quantity)
             IN  ImpactBps(side, st, mid)

\* (mutant) mid = best_ask: the bid is left out of the mid-price
PriceImpactMidIsAsk(book, side, quantity) ==
    LET bids == SideOrders(book, "buy")
        asks == SideOrders(book, "sell")
    IN  IF bids = <<>> \/ asks = <<>> THEN Frac(0, 1)
        ELSE LET mid == MinPriceOf(asks)
                 st == ImpactFill(book, side, quantity)
             IN  IF st.filled = 0 THEN Frac(0, 1) ELSE ImpactBps(side, st, mid)

PriceImpact(book, side, quantity) ==
    LET bids == SideOrders(book, "buy")
        asks == SideOrders(book, "sell")
    IN  IF bids = <<>> \/ asks = <<>> THEN Frac(0, 1)
        ELSE LET mid == (MaxPriceOf(bids) + MinPriceOf(asks)) \div 2
                 st == ImpactFill(book, side, quantity)
             IN  IF st.filled = 0 THEN Frac(0, 1) ELSE ImpactBps(side, st, mid)

calculate_price_impact(side, quantity) ==
    /\ CanCall
    /\ Returned("calculate_price_impact", side, quantity,
                PriceImpact(order_book, side, quantity))
    /\ UNCHANGED <<order_book, trade_history, bots, true_price, true_history, tick,
                   order_id, pc, cur, instep>>
    /\ UNCHANGED loopvars
    /\ UNCHANGED held
    /\ UNCHANGED other
    /\ UNCHANGED sb

\* ---------------------------------------------------------------- get_cumulative_depth
\* s.groupby('price', as_index=False)['size'].sum(): one row per distinct price,
\* keys ascending, the sizes of the group added up.
RECURSIVE SizeAt(_, _)
SizeAt(s, price) ==
    IF s = <<>> THEN 0
    ELSE (IF s[1].price = price THEN s[1].size ELSE 0) + SizeAt(Tail(s), price)

RECURSIVE AscendingSeq(_)
AscendingSeq(S) ==
    IF S = {} THEN <<>>
    ELSE LET m == CHOOSE x \in S : \A y \in S : x <= y
         IN  <<m>> \o AscendingSeq(S \ {m})

GroupByPrice(s) ==
    LET keys == AscendingSeq({s[i].price : i \in 1..Len(s)})
    IN  [k \in 1..Len(keys) |-> [price |-> keys[k], size |-> SizeAt(s, keys[k])]]

\* grouped.sort_values('price', ascending=...)
Reverse(s) == [k \in 1..Len(s) |-> s[Len(s) + 1 - k]]
SortValues(grouped, ascending) == IF ascending THEN grouped ELSE Reverse(grouped)

\* grouped['size'].cumsum()
RECURSIVE CumSum(_)
CumSum(g) ==
    IF g = <<>> THEN <<>>
    ELSE LET head == CumSum(SubSeq(g, 1, Len(g) - 1))
             sofar == IF head = <<>> THEN 0 ELSE head[Len(head)]
         IN  Append(head, sofar + g[Len(g)].size)

\* (mutant) ascending=True for the buys too
DepthSideAscending(book, side) ==
    LET s == SideOrders(book, side)
        grouped == SortValues(GroupByPrice(s), TRUE)
        cum == CumSum(grouped)
    IN  [k \in 1..Len(grouped) |->
            [side |-> side, price |-> grouped[k].price, cum_size |-> cum[k]]]

\* One pass of the loop over ('buy', 'sell'): the rows of one side, none when the
\* side is empty.
DepthSide(book, side) ==
    LET s == SideOrders(book, side)
        grouped == SortValues(GroupByPrice(s), side # "buy")
        cum == CumSum(grouped)
    IN  [k \in 1..Len(grouped) |->
            [side |-> side, price |-> grouped[k].price, cum_size |-> cum[k]]]

\* The rows of the DataFrame returned: the buys' rows, then the sells'.
CumulativeDepth(book) ==
    IF book = <<>> THEN <<>>
    ELSE DepthSide(book, "buy") \o DepthSide(book, "sell")

get_cumulative_depth ==
    /\ CanCall
    /\ Returned("get_cumulative_depth", None, 0, CumulativeDepth(order_book))
    /\ UNCHANGED <<order_book, trade_history, bots, true_price, true_history, tick,
                   order_id, pc, cur, instep>>
    /\ UNCHANGED loopvars
    /\ UNCHANGED held
    /\ UNCHANGED other
    /\ UNCHANGED sb

\* ---------------------------------------------------------------- the caller
\* The caller is done with the result it was handed and goes on; the driver
\* that step has returned to is done with that step.
resume ==
    /\ last # NoCall
    /\ last' = NoCall
    /\ ret' = None
    /\ pre' = NoPass
    /\ crossed' = <<>>
    /\ IF pc = "idle"
       THEN step_bots' = 0 /\ called' = <<>> /\ raised' = 0
       ELSE UNCHANGED loopvars
    /\ UNCHANGED <<order_book, trade_history, bots, true_price, true_history,
                   tick, order_id, pc, cur, instep>>
    /\ held' = NoHeld
    /\ UNCHANGED other
    /\ UNCHANGED sb

\* ---------------------------------------------------------------- Next
\* The snapshots of n records.
Snapshots(n) == [1..n -> OrderInputs]

\* The engine driven call by call, as the unit tests drive it.
Next ==
    \/ \E order \in OrderInputs : place_order(order)
    \/ \E n \in 0..Min(MaxSnap, MaxId - order_id) :
          \E snapshot \in Snapshots(n) : load_snapshot(snapshot)
    \/ match_orders
    \/ match_iter
    \/ match_return
    \/ \E side \in Sides, quantity \in Quantities : execute_market_order(side, quantity)
    \/ \E side \in Sides, quantity \in Quantities : simulate_market_order(side, quantity)
    \/ \E side \in Sides, quantity \in Quantities : calculate_price_impact(side, quantity)
    \/ resume

Spec == Init /\ [][Next]_vars

\* The engine driven tick by tick, as run_simulation drives it: bots are
\* registered, step is called, and the orders come from the bots' callbacks.
StepNext ==
    \/ pc = "idle" /\ register_bot
    \/ \E order \in OrderInputs :
          pc = "bots" /\ order_id < MaxBotIds /\ place_order(order)
    \/ \E move \in PriceMoves : step(move)
    \/ bot_return
    \/ step_match
    \/ match_orders
    \/ match_iter
    \/ match_return
    \/ resume

StepSpec == Init /\ [][StepNext]_vars

\* The quotes the bots post: both sides, any price, the positive sizes.
BotQuotes == [side : Sides, price : Prices, size : Sizes \ {0}]

\* One tick looked at callback by callback: the bots post quotes, sweep,
\* register further bots, return or raise.  No method of the engine reads
\* true_price, so one sample of the random walk per tick stands for all.
TickNext ==
    \/ register_bot
    \/ \E order \in BotQuotes :
          pc = "bots" /\ order_id < MaxBotIds /\ place_order(order)
    \/ \E side \in Sides, quantity \in Quantities :
          pc = "bots" /\ execute_market_order(side, quantity)
    \/ step(2)
    \/ bot_return
    \/ bot_raise
    \/ step_match
    \/ match_iter
    \/ match_return
    \/ resume

TickSpec == Init /\ [][TickNext]_vars

\* Orders that pass for valid: a side, a price, a positive size.
ValidOrders == [side : Sides, price : Prices, size : Sizes \ {0}]

\* The operations that change the engine, called with valid orders by a driver
\* that has registered no bot: place_order, load_snapshot, execute_market_order,
\* _match_orders, step.  No method of the engine reads true_price, so one sample
\* of the random walk per tick stands for all.
EngineNext ==
    \/ \E order \in ValidOrders : place_order(order)
    \/ \E n \in 0..Min(MaxSnap, MaxId - order_id) :
          \E snapshot \in [1..n -> ValidOrders] : load_snapshot(snapshot)
    \/ \E side \in Sides, quantity \in Quantities : execute_market_order(side, quantity)
    \/ step(2)
    \/ step_match
    \/ match_orders
    \/ match_iter
    \/ match_return
    \/ resume

EngineSpec == Init /\ [][EngineNext]_vars

\* ---------------------------------------------------------------- the splitting test
\* Prices are in quarters of the test's price unit: 100.0 is 400.
RefPrice == 400
AskPrices == <<420, 424, 428>>
AskSizes == <<1, 2, 3>>
MMSpread == 4
MMSize == 1
TotalSize == 6
Slices == 6
Ticks == 6

\* _match_orders run to its end on `book` at tick `now`: the book left and the
\* trades appended.
RECURSIVE MatchAll(_, _)
MatchAll(book, now) ==
    IF Settled(book) THEN [book |-> book, trades |-> <<>>]
    ELSE LET m == MatchBody(book, now)
             r == MatchAll(m.book, now)
         IN  [book |-> r.book, trades |-> <<m.trade>> \o r.trades]

\* MarketMaker.on_tick with jitter 0: a bid and an ask around engine.true_price.
MarketMakerQuotes(center) ==
    <<[side |-> "buy", price |-> center - MMSpread \div 2, size |-> MMSize],
      [side |-> "sell", price |-> center + MMSpread \div 2, size |-> MMSize]>>

MarketMakerTick(book, first_id, center) ==
    LET q == MarketMakerQuotes(center)
    IN  book \o <<NewOrder(q[1], first_id), NewOrder(q[2], first_id + 1)>>

\* SplittingBot.start_order(side, total_size, slices) with slice_size None.
StartOrder(side, total_size, slices) ==
    [active |-> TRUE, side |-> side, total |-> total_size,
     remaining |-> total_size, slices |-> slices, slice |-> 0,
     executions |-> <<>>]

\* SplittingBot.on_tick on an engine whose book is `book`: the bot and the book
\* after it. remaining / target_slices_left is exact in every run of the test.
\* (mutant) on_tick without its first two lines: no return when the bot is
\* inactive or has nothing left
SplitterTickAlways(bot, book) ==
    LET left == IF bot.slices - bot.slice > 1 THEN bot.slices - bot.slice ELSE 1
        this_slice == Min(bot.remaining \div left, bot.remaining)
        r == ExecuteSweep(book, bot.side, this_slice)
        res == [executed_size |-> r.executed_size,
                unfilled_size |-> r.unfilled_size, vwap |-> r.vwap]
        remaining == bot.remaining - r.executed_size
    IN  [bot |-> [bot EXCEPT !.executions = Append(@, res),
                             !.remaining = remaining,
                             !.slice = @ + 1,
                             !.active = ~(remaining <= 0
                                          \/ bot.slice + 1 >= bot.slices)],
         book |-> r.book]

SplitterTick(bot, book) ==
    IF ~bot.active \/ bot.remaining <= 0 THEN [bot |-> bot, book |-> book]
    ELSE LET left == IF bot.slices - bot.slice > 1 THEN bot.slices - bot.slice ELSE 1
             this_slice == Min(bot.remaining \div left, bot.remaining)
             r == ExecuteSweep(book, bot.side, this_slice)
             res == [executed_size |-> r.executed_size,
                     unfilled_size |-> r.unfilled_size, vwap |-> r.vwap]
             remaining == bot.remaining - r.executed_size
         IN  [bot |-> [bot EXCEPT !.executions = Append(@, res),
                                  !.remaining = remaining,
                                  !.slice = @ + 1,
                                  !.active = ~(remaining <= 0
                                               \/ bot.slice + 1 >= bot.slices)],
              book |-> r.book]

\* The test's two engines: the three asks on each, the market maker on both,
\* the splitting bot after it on engine_split, and its order started.
AsksOf(sizes) ==
    [k \in 1..3 |->
        NewOrder([side |-> "sell", price |-> AskPrices[k], size |-> sizes[k]], k - 1)]

scenario_setup(sizes) ==
    /\ DriverCan
    /\ Self = NewEngine
    /\ other = NewEngine
    /\ sb = NoBot
    /\ order_book' = AsksOf(sizes)
    /\ order_id' = 3
    /\ bots' = 2
    /\ true_price' = RefPrice
    /\ true_history' = <<RefPrice>>
    /\ other' = [NewEngine EXCEPT !.order_book = AsksOf(sizes), !.order_id = 3,
                                  !.bots = 1, !.true_price = RefPrice,
                                  !.true_history = <<RefPrice>>]
    /\ sb' = StartOrder("buy", TotalSize, Slices)
    /\ UNCHANGED <<trade_history, tick, pc, cur, instep, last, ret, pre, crossed,
                   held>>
    /\ UNCHANGED loopvars

\* (mutant) the splitting bot is registered before the market maker
scenario_step_splitter_first ==
    /\ DriverCan
    /\ sb.total > 0
    /\ tick < Ticks
    /\ tick' = tick + 1
    /\ true_history' = Append(true_history, true_price)
    /\ LET s == SplitterTick(sb, order_book)
           quoted == MarketMakerTick(s.book, order_id, true_price)
           m == MatchAll(quoted, tick + 1)
       IN  /\ order_book' = m.book
           /\ trade_history' = trade_history \o m.trades
           /\ sb' = s.bot
    /\ order_id' = order_id + 2
    /\ UNCHANGED <<bots, true_price, pc, cur, instep, last, ret, pre, crossed,
                   other, held>>
    /\ UNCHANGED loopvars

\* engine_split.step() with vol = 0.0: the market maker's on_tick, the
\* splitting bot's on_tick, then _match_orders.
scenario_step ==
    /\ DriverCan
    /\ sb.total > 0
    /\ tick < Ticks
    /\ tick' = tick + 1
    /\ true_history' = Append(true_history, true_price)
    /\ LET quoted == MarketMakerTick(order_book, order_id, true_price)
           s == SplitterTick(sb, quoted)
           m == MatchAll(s.book, tick + 1)
       IN  /\ order_book' = m.book
           /\ trade_history' = trade_history \o m.trades
           /\ sb' = s.bot
    /\ order_id' = order_id + 2
    /\ UNCHANGED <<bots, true_price, pc, cur, instep, last, ret, pre, crossed,
                   other, held>>
    /\ UNCHANGED loopvars

\* The test run on books of the three asks with sizes of the reference ones.
ScenarioNext ==
    \/ \E sizes \in [1..3 -> {1, 2, 3}] : scenario_setup(sizes)
    \/ scenario_step

ScenarioSpec == Init /\ [][ScenarioNext]_vars

\* The driver turns to its other engine: from now on its calls go to that one.
switch_engine ==
    /\ DriverCan
    /\ order_book' = other.order_book
    /\ trade_history' = other.trade_history
    /\ bots' = other.bots
    /\ true_price' = other.true_price
    /\ true_history' = other.true_history
    /\ tick' = other.tick
    /\ order_id' = other.order_id
    /\ other' = Self
    /\ UNCHANGED <<pc, cur, instep, last, ret, pre, crossed, held>>
    /\ UNCHANGED loopvars
    /\ UNCHANGED sb

\* Two engines and the bots registered on them, as the tests build them.
UnitQuotes == {[side |-> "buy", price |-> 4, size |-> 1],
               [side |-> "sell", price |-> 2, size |-> 1]}

PairNext ==
    \/ pc = "idle" /\ register_bot
    \/ \E order \in UnitQuotes : order_id < MaxBotIds /\ place_order(order)
    \/ step(2)
    \/ bot_return
    \/ step_match
    \/ match_iter
    \/ match_return
    \/ resume
    \/ switch_engine

PairSpec == Init /\ [][PairNext]_vars

\* A caller that keeps the dicts it passed and the dicts returned to it, and
\* writes to them.
HeldParts == {"given", "got"}
WrittenSizes == {0}

AliasNext ==
    \/ \E order \in ValidOrders : order_id < MaxHeldIds /\ place_order(order)
    \/ \E n \in 0..Min(MaxSnap, MaxHeldIds - order_id) :
          \E snapshot \in [1..n -> ValidOrders] : load_snapshot(snapshot)
    \/ \E side \in Sides, quantity \in Sizes \ {0} :
          simulate_market_order(side, quantity)
    \/ \E side \in Sides, quantity \in Sizes \ {0} :
          simulate_market_order_book(side, quantity)
    \/ copy_book
    \/ \E part \in HeldParts, k \in 1..MaxHeldIds, size \in WrittenSizes :
          caller_writes(part, k, size)
    \/ resume

AliasSpec == Init /\ [][AliasNext]_vars

\* A caller that makes up hypothetical books (orders of size > 0 under ids of
\* its choice, which may repeat) and chains simulated sweeps on what it gets.
GivenOrders == [side : Sides, price : Prices, size : Sizes \ {0}, id : 1..MaxGivenId]
GivenBooks == UNION {[1..n -> GivenOrders] : n \in 0..MaxGiven}

GivenNext ==
    \/ /\ last = NoCall
       /\ \E book \in GivenBooks, side \in Sides, quantity \in Quantities :
             simulate_market_order_given(book, side, quantity)
    \/ \E side \in Sides, quantity \in Quantities :
          simulate_market_order_chained(side, quantity)
    \/ resume

GivenSpec == Init /\ [][GivenNext]_vars

\* A SplittingBot alone on an engine whose book other parties fill.  The bot
\* divides what remains by the slices left, so sizes are counted here in
\* parts of a lot small enough for every such quotient to be whole.
RECURSIVE Factorial(_)
Factorial(n) == IF n <= 1 THEN 1 ELSE n * Factorial(n - 1)

SliceUnit == Factorial(MaxSlices)
BotOrders == [side : Sides, price : Prices,
              size : {s * SliceUnit : s \in Sizes \ {0}}]
BotTotals == {s * SliceUnit : s \in Sizes}

\* bot = SplittingBot(); engine.register_bot(bot);
\* bot.start_order(side, total_size, slices)
splitter_start(side, total_size, slices) ==
    /\ DriverCan
    /\ bots = 0
    /\ sb = NoBot
    /\ bots' = 1
    /\ sb' = StartOrder(side, total_size, slices)
    /\ UNCHANGED <<order_book, trade_history, true_price, true_history, tick,
                   order_id, pc, cur, instep, last, ret, pre, crossed, other, held>>
    /\ UNCHANGED loopvars

\* engine.step() with the SplittingBot as the only bot (vol = 0): the tick,
\* the bot's on_tick, then the matching.
splitter_step ==
    /\ DriverCan
    /\ bots = 1
    /\ tick <= MaxSlices
    /\ tick' = tick + 1
    /\ true_history' = Append(true_history, true_price)
    /\ LET s == SplitterTick(sb, order_book)
           m == MatchAll(s.book, tick + 1)
       IN  /\ order_book' = m.book
           /\ trade_history' = trade_history \o m.trades
           /\ sb' = s.bot
    /\ UNCHANGED <<bots, true_price, order_id, pc, cur, instep, last, ret, pre,
                   crossed, other, held>>
    /\ UNCHANGED loopvars

BotNext ==
    \/ \E side \in Sides, total_size \in BotTotals, slices \in 1..MaxSlices :
          splitter_start(side, total_size, slices)
    \/ \E order \in BotOrders : order_id < MaxBotOrders /\ place_order(order)
    \/ splitter_step
    \/ resume

BotSpec == Init /\ [][BotNext]_vars

\* An AdaptiveSplittingBot alone on an engine whose book other parties fill.
\* The bot takes half of the size it sees, tick after tick, so sizes are
\* counted here in parts of a lot small enough for every such half to be
\* whole.
RECURSIVE PowerOfTwo(_)
PowerOfTwo(n) == IF n <= 0 THEN 1 ELSE 2 * PowerOfTwo(n - 1)

AdaptUnit == PowerOfTwo(MaxAdaptTicks)
Aggressiveness == Frac(1, 2)
AdaptOrders == [side : Sides, price : Prices,
                size : {s * AdaptUnit : s \in Sizes \ {0}}]
AdaptTotals == {s * AdaptUnit : s \in Sizes \ {0}}
MinSliceChoices == {AdaptUnit \div 2, AdaptUnit}
MaxSliceChoices == {AdaptUnit, 2 * AdaptUnit}

Larger(a, b) == IF a >= b THEN a ELSE b

\* bot = AdaptiveSplittingBot(aggressiveness, min_slice, max_slice);
\* engine.register_bot(bot); bot.start_order(side, total_size)
adaptive_start(side, total_size, min_slice, max_slice) ==
    /\ DriverCan
    /\ bots = 0
    /\ sb = NoBot
    /\ bots' = 1
    /\ sb' = [active |-> TRUE, side |-> side, total |-> total_size,
              remaining |-> total_size, min_slice |-> min_slice,
              max_slice |-> max_slice, executions |-> <<>>]
    /\ UNCHANGED <<order_book, trade_history, true_price, true_history, tick,
                   order_id, pc, cur, instep, last, ret, pre, crossed, other, held>>
    /\ UNCHANGED loopvars

\* (mutant) the last row of the side is read: the depth of the whole side
WholeSideLiquidity(book, side) ==
    LET df == CumulativeDepth(book)
        s == SelectSeq(df, LAMBDA row : row.side = PassiveSide(side))
    IN  IF df = <<>> THEN 0
        ELSE IF s = <<>> THEN 0
        ELSE s[Len(s)].cum_size

\* _best_visible_liquidity for a bot trading on `side`
BestVisibleLiquidity(book, side) ==
    LET df == CumulativeDepth(book)
        s == SelectSeq(df, LAMBDA row : row.side = PassiveSide(side))
    IN  IF df = <<>> THEN 0
        ELSE IF s = <<>> THEN 0
        ELSE s[1].cum_size

\* AdaptiveSplittingBot.on_tick on `book`: the bot and the book after it.
AdaptiveTick(bot, book) ==
    IF ~bot.active \/ bot.remaining <= 0 THEN [bot |-> bot, book |-> book]
    ELSE LET visible == BestVisibleLiquidity(book, bot.side)
             target == (Aggressiveness.num * visible) \div Aggressiveness.den
             this_slice == Min(Min(Larger(bot.min_slice, target), bot.max_slice),
                               bot.remaining)
             r == ExecuteSweep(book, bot.side, this_slice)
             res == [executed_size |-> r.executed_size,
                     unfilled_size |-> r.unfilled_size, vwap |-> r.vwap]
             remaining == bot.remaining - r.executed_size
         IN  [bot |-> [bot EXCEPT !.executions = Append(@, res),
                                  !.remaining = remaining,
                                  !.active = ~(remaining <= 0)],
              book |-> r.book]

\* engine.step() with the AdaptiveSplittingBot as the only bot (vol = 0)
adaptive_step ==
    /\ DriverCan
    /\ bots = 1
    /\ tick < MaxAdaptTicks
    /\ tick' = tick + 1
    /\ true_history' = Append(true_history, true_price)
    /\ LET s == AdaptiveTick(sb, order_book)
           m == MatchAll(s.book, tick + 1)
       IN  /\ order_book' = m.book
           /\ trade_history' = trade_history \o m.trades
           /\ sb' = s.bot
    /\ UNCHANGED <<bots, true_price, order_id, pc, cur, instep, last, ret, pre,
                   crossed, other, held>>
    /\ UNCHANGED loopvars

AdaptNext ==
    \/ \E side \in Sides, total_size \in AdaptTotals,
          min_slice \in MinSliceChoices, max_slice \in MaxSliceChoices :
          adaptive_start(side, total_size, min_slice, max_slice)
    \/ \E order \in AdaptOrders : order_id < MaxBotOrders /\ place_order(order)
    \/ adaptive_step
    \/ resume

AdaptSpec == Init /\ [][AdaptNext]_vars

\* An InformedTrader alone on an engine whose book other parties fill.
ExtremeOffset == 2000000      \* 1e6, in half ticks

\* it = InformedTrader(activity_prob, size, direction); engine.register_bot(it)
informed_start(direction, size) ==
    /\ DriverCan
    /\ bots = 0
    /\ sb = NoBot
    /\ bots' = 1
    /\ sb' = [direction |-> direction, size |-> size]
    /\ UNCHANGED <<order_book, trade_history, true_price, true_history, tick,
                   order_id, pc, cur, instep, last, ret, pre, crossed, other, held>>
    /\ UNCHANGED loopvars

\* (mutant) the order is priced at the reference value itself
InformedOrderAtMid(bot, mid) ==
    [side |-> bot.direction, price |-> mid, size |-> bot.size]

\* The order InformedTrader.on_tick places when it acts, mid = engine.true_price.
InformedOrder(bot, mid) ==
    IF bot.direction = "buy"
    THEN [side |-> "buy", price |-> mid + ExtremeOffset, size |-> bot.size]
    ELSE [side |-> "sell", price |-> mid - ExtremeOffset, size |-> bot.size]

\* engine.step() with the InformedTrader as the only bot: the tick, the move
\* of the reference value, the bot's on_tick (which acts or, on
\* rng.random() > activity_prob, returns), then the matching.
informed_step(move, acts) ==
    /\ DriverCan
    /\ bots = 1
    /\ tick <= MaxTick
    /\ tick' = tick + 1
    /\ true_price' = true_price + move
    /\ true_history' = Append(true_history, true_price + move)
    /\ LET placed == IF acts
                     THEN Append(order_book,
                                 NewOrder(InformedOrder(sb, true_price + move),
                                          order_id))
                     ELSE order_book
           m == MatchAll(placed, tick + 1)
       IN  /\ order_book' = m.book
           /\ trade_history' = trade_history \o m.trades
    /\ order_id' = IF acts THEN order_id + 1 ELSE order_id
    /\ UNCHANGED <<bots, pc, cur, instep, last, ret, pre, crossed, other, held, sb>>
    /\ UNCHANGED loopvars

InformedNext ==
    \/ \E direction \in Sides, size \in Quantities \ {0} :
          informed_start(direction, size)
    \/ \E order \in ValidOrders : order_id < MaxBotOrders /\ place_order(order)
    \/ \E move \in PriceMoves, acts \in BOOLEAN : informed_step(move, acts)
    \/ resume

InformedSpec == Init /\ [][InformedNext]_vars

\* The four execution bots of the tests, each on an engine of its own that
\* holds the reference asks and a MarketMaker registered before the bot.
\* Prices are in quarters as above.  Each engine counts sizes in its own part
\* of a lot: whole lots for the SplittingBot, tenths for the two greedy bots
\* (their candidates are tenths), and tenths halved once per tick for the
\* AdaptiveSplittingBot.
Horizon == 3
MMAssumeSize == 1
BenchTicks == 12
CandidateTenths == <<1, 2, 5, 10, 20, 50, 100>>
Kinds == <<"splitting", "adaptive", "greedy", "lookahead">>
KindSet == {Kinds[k] : k \in 1..Len(Kinds)}
SizeUnit == [splitting |-> 1, adaptive |-> 10 * PowerOfTwo(BenchTicks),
             greedy |-> 10, lookahead |-> 10]
PriceUnit == RefPrice \div 100          \* 1.0 of price, in quarters

\* float('inf'), and the comparison a < b of two averages that may be it
Infinite == [inf |-> TRUE]

RECURSIVE GCD(_, _)
GCD(a, b) == IF b = 0 THEN a ELSE GCD(b, a % b)

\* the same fraction in lowest terms (den > 0)
Lowest(f) ==
    LET g == GCD(IF f.num < 0 THEN 0 - f.num ELSE f.num, f.den)
    IN  Frac(f.num \div g, f.den \div g)

Cheaper(a, b) ==
    IF a = Infinite THEN FALSE
    ELSE IF b = Infinite THEN TRUE
    ELSE Lowest(a).num * Lowest(b).den < Lowest(b).num * Lowest(a).den

\* res = engine.execute_market_order(side, this_slice); executions.append(res);
\* remaining -= res['executed_size']; inactive once remaining <= 0
ExecuteSlice(bot, book, this_slice) ==
    LET r == ExecuteSweep(book, bot.side, this_slice)
        res == [executed_size |-> r.executed_size,
                unfilled_size |-> r.unfilled_size, vwap |-> r.vwap]
        remaining == bot.remaining - r.executed_size
    IN  [bot |-> [bot EXCEPT !.executions = Append(@, res),
                             !.remaining = remaining,
                             !.active = ~(remaining <= 0)],
         book |-> r.book]

\* int(max(1, round(s))): Python rounds a half to the even neighbour
RoundHalfEven(s, unit) ==
    LET n == s \div unit
        r == s % unit
    IN  IF 2 * r < unit THEN n
        ELSE IF 2 * r > unit THEN n + 1
        ELSE IF n % 2 = 0 THEN n ELSE n + 1

\* mid * (1.0 + bps / 10000.0) for a buy, mid * (1.0 - bps / 10000.0)
\* otherwise; bps is x * 10000 / d as ImpactBps builds it, so bps / 10000 is
\* x / d
EstPrice(side, mid, bps) ==
    IF side = "buy"
    THEN Frac(mid * (bps.den + bps.num \div BPS), bps.den)
    ELSE Frac(mid * (bps.den - bps.num \div BPS), bps.den)

\* The loop of GreedyAdaptiveBot._choose_slice over the candidates from the
\* k-th on, best = the best price per unit and candidate so far.
RECURSIVE GreedyLoop(_, _, _, _, _, _)
GreedyLoop(bot, book, unit, mid, k, best) ==
    IF k > Len(CandidateTenths) THEN best.candidate
    ELSE LET c == (CandidateTenths[k] * unit) \div 10
             s == Larger(bot.min_slice, Min(bot.max_slice, Min(c, bot.remaining)))
             bps == PriceImpact(book, bot.side,
                                Larger(1, RoundHalfEven(s, unit)) * unit)
             est_price == EstPrice(bot.side, mid, bps)
         IN  IF s <= 0 THEN GreedyLoop(bot, book, unit, mid, k + 1, best)
             ELSE IF Cheaper(est_price, best.price)
                  THEN GreedyLoop(bot, book, unit, mid, k + 1,
                                  [price |-> est_price, candidate |-> s])
                  ELSE GreedyLoop(bot, book, unit, mid, k + 1, best)

\* (mutant) no search: the bot asks for all that remains
GreedyChooseAll(bot, book, unit) == bot.remaining

\* GreedyAdaptiveBot._choose_slice
GreedyChoose(bot, book, unit) ==
    LET bids == SideOrders(book, "buy")
        asks == SideOrders(book, "sell")
    IN  IF bids = <<>> \/ asks = <<>> THEN bot.min_slice
        ELSE GreedyLoop(bot, book, unit,
                        (MaxPriceOf(bids) + MinPriceOf(asks)) \div 2, 1,
                        [price |-> Infinite, candidate |-> bot.min_slice])

\* GreedyAdaptiveBot.on_tick
GreedyTick(bot, book, unit) ==
    IF ~bot.active \/ bot.remaining <= 0 THEN [bot |-> bot, book |-> book]
    ELSE ExecuteSlice(bot, book, Min(GreedyChoose(bot, book, unit), bot.remaining))

\* The simulated book of GreedyLookaheadBot: a copy of the live book.  Its
\* synthetic orders sit at mid + 0.5, a half of a half after two of them, so
\* the copy counts prices in parts of a quarter.
PriceScale == PowerOfTwo(Horizon - 1)
SimCopy(book) == [k \in 1..Len(book) |-> [book[k] EXCEPT !.price = @ * PriceScale]]

\* The loop of _simulate_with_candidate from step st.step on (center =
\* engine.true_price).
RECURSIVE LookaheadLoop(_, _, _, _, _)
LookaheadLoop(side, first_slice, unit, center, st) ==
    IF st.step >= Horizon \/ first_slice <= 0 THEN st
    ELSE LET res == SimulateSweep(st.sim_book, side, first_slice)
             counted == res.executed_size > 0 /\ res.vwap # Absent
             bids == SideOrders(res.book, "buy")
             asks == SideOrders(res.book, "sell")
             half == (PriceUnit * PriceScale) \div 2
             add_price ==
                 IF bids # <<>> /\ asks # <<>>
                 THEN LET mid == (MaxPriceOf(bids) + MinPriceOf(asks)) \div 2
                      IN  IF side = "buy" THEN mid + half ELSE mid - half
                 ELSE IF side = "buy"
                      THEN center * PriceScale + PriceUnit * PriceScale
                      ELSE center * PriceScale - PriceUnit * PriceScale
             new_order == [side |-> PassiveSide(side), price |-> add_price,
                           size |-> MMAssumeSize * unit, id |-> 0 - 9999 - st.step]
         IN  LookaheadLoop(side, first_slice, unit, center,
                 [step |-> st.step + 1,
                  sim_book |-> Append(res.book, new_order),
                  total_cost |-> st.total_cost
                      + (IF counted
                         THEN (res.executed_size * res.vwap.num) \div res.vwap.den
                         ELSE 0),
                  total_executed |-> st.total_executed
                      + (IF counted THEN res.executed_size ELSE 0)])

\* GreedyLookaheadBot._simulate_with_candidate
SimulateWithCandidate(bot, book, unit, center, first_slice) ==
    LET st == LookaheadLoop(bot.side, first_slice, unit, center,
                            [step |-> 0, sim_book |-> SimCopy(book),
                             total_cost |-> 0, total_executed |-> 0])
    IN  IF st.total_executed = 0 THEN Infinite
        ELSE Frac(st.total_cost, st.total_executed)

\* The loop of GreedyLookaheadBot._choose_slice over the candidates from the
\* k-th on.
RECURSIVE LookaheadChooseLoop(_, _, _, _, _, _)
LookaheadChooseLoop(bot, book, unit, center, k, best) ==
    IF k > Len(CandidateTenths) THEN best.s
    ELSE LET c == (CandidateTenths[k] * unit) \div 10
             s == Larger(0, Min(c, bot.remaining))
             avg_price == SimulateWithCandidate(bot, book, unit, center, s)
         IN  IF s <= 0 THEN LookaheadChooseLoop(bot, book, unit, center, k + 1, best)
             ELSE IF Cheaper(avg_price, best.avg)
                  THEN LookaheadChooseLoop(bot, book, unit, center, k + 1,
                                           [avg |-> avg_price, s |-> s])
                  ELSE LookaheadChooseLoop(bot, book, unit, center, k + 1, best)

\* GreedyLookaheadBot.on_tick
LookaheadTick(bot, book, unit, center) ==
    IF ~bot.active \/ bot.remaining <= 0 THEN [bot |-> bot, book |-> book]
    ELSE ExecuteSlice(bot, book,
             Min(LookaheadChooseLoop(bot, book, unit, center, 1,
                     [avg |-> Infinite, s |-> (CandidateTenths[1] * unit) \div 10]),
                 bot.remaining))

\* The bot of each kind as the tests construct and start it.
StartBot(kind, unit) ==
    LET started == [active |-> TRUE, side |-> "buy", total |-> TotalSize * unit,
                    remaining |-> TotalSize * unit, executions |-> <<>>]
    IN  CASE kind = "splitting" -> StartOrder("buy", TotalSize * unit, Slices)
          [] kind = "adaptive" ->
                [min_slice |-> unit \div 10, max_slice |-> 2 * unit] @@ started
          [] kind = "greedy" ->
                [min_slice |-> unit \div 10, max_slice |-> 10 * unit] @@ started
          [] kind = "lookahead" -> started

\* bot.on_tick(engine) for the bot of the kind
BotTick(kind, bot, book, unit, center) ==
    CASE kind = "splitting" -> SplitterTick(bot, book)
      [] kind = "adaptive" -> AdaptiveTick(bot, book)
      [] kind = "greedy" -> GreedyTick(bot, book, unit)
      [] kind = "lookahead" -> LookaheadTick(bot, book, unit, center)

\* engine.step() of the engine `run` of a kind: the market maker quotes, the
\* bot's on_tick, then the matching (vol = 0).
EngineStep(kind, run) ==
    LET unit == SizeUnit[kind]
        q == MarketMakerQuotes(RefPrice)
        quoted == run.order_book
                  \o <<NewOrder([q[1] EXCEPT !.size = @ * unit], run.order_id),
                       NewOrder([q[2] EXCEPT !.size = @ * unit], run.order_id + 1)>>
        s == BotTick(kind, run.bot, quoted, unit, RefPrice)
        m == MatchAll(s.book, run.tick + 1)
    IN  [run EXCEPT !.bot = s.bot, !.order_book = m.book,
                    !.order_id = @ + 2, !.tick = @ + 1,
                    !.trade_history = @ \o m.trades]

\* for _ in range(n): engine.step(); if not bot.active: break  (the
\* SplittingBot's loop has no break)
RunOver(kind, run) ==
    IF kind = "splitting" THEN run.tick >= Ticks
    ELSE run.tick >= BenchTicks \/ (run.tick > 0 /\ ~run.bot.active)

\* The four engines set up: the asks placed, the market maker and the bot
\* registered, the bot started.
bench_setup(sizes) ==
    /\ DriverCan
    /\ bots = 0
    /\ sb = NoBot
    /\ bots' = 2
    /\ sb' = [kind \in KindSet |->
                [bot |-> StartBot(kind, SizeUnit[kind]),
                 order_book |-> [k \in 1..3 |->
                                    [AsksOf(sizes)[k] EXCEPT !.size = @ * SizeUnit[kind]]],
                 order_id |-> 3, tick |-> 0, trade_history |-> <<>>,
                 asks |-> sizes]]
    /\ UNCHANGED <<order_book, trade_history, true_price, true_history, tick,
                   order_id, pc, cur, instep, last, ret, pre, crossed, other, held>>
    /\ UNCHANGED loopvars

\* One step of the k-th run, the runs before it being over.
bench_step(k) ==
    /\ DriverCan
    /\ bots = 2
    /\ sb # NoBot
    /\ \A j \in 1..(k - 1) : RunOver(Kinds[j], sb[Kinds[j]])
    /\ ~RunOver(Kinds[k], sb[Kinds[k]])
    /\ sb' = [sb EXCEPT ![Kinds[k]] = EngineStep(Kinds[k], @)]
    /\ UNCHANGED <<order_book, trade_history, bots, true_price, true_history, tick,
                   order_id, pc, cur, instep, last, ret, pre, crossed, other, held>>
    /\ UNCHANGED loopvars

BenchNext ==
    \/ \E sizes \in [1..3 -> {1, 2, 3}] : bench_setup(sizes)
    \/ \E k \in 1..Len(Kinds) : bench_step(k)

BenchSpec == Init /\ [][BenchNext]_vars

\* A book built order by order, swept and queried.
QueryNext ==
    \/ \E order \in OrderInputs : place_order(order)
    \/ \E side \in Sides, quantity \in Quantities : execute_market_order(side, quantity)
    \/ \E side \in Sides, quantity \in Quantities : simulate_market_order(side, quantity)
    \/ \E side \in Sides, quantity \in Quantities : calculate_price_impact(side, quantity)
    \/ get_cumulative_depth
    \/ resume

QuerySpec == Init /\ [][QueryNext]_vars

\* The engine fed orders of any size, negative sizes too, then swept and queried.
RawNext ==
    \/ \E order \in AnyOrders : place_order(order)
    \/ \E side \in Sides, quantity \in Quantities : execute_market_order(side, quantity)
    \/ \E side \in Sides, quantity \in Quantities : simulate_market_order(side, quantity)
    \/ get_cumulative_depth
    \/ resume

RawSpec == Init /\ [][RawNext]_vars

\* ================================================================ properties
\* Helpers of the properties below.
Queries == {"simulate_market_order", "calculate_price_impact"}
PassOps == {"_match_orders", "step"}

\* A matching pass is running or has just returned: pre and crossed describe it.
InPass == pc = "match" \/ last.op \in PassOps

Orders(book) == {book[i] : i \in 1..Len(book)}
OnSide(book, side) == {o \in Orders(book) : o.side = side}
AllPositive(book) == \A o \in Orders(book) : o.size > 0

RECURSIVE SumOver(_)
SumOver(S) == IF S = {} THEN 0
              ELSE LET o == CHOOSE x \in S : TRUE IN o.size + SumOver(S \ {o})

\* Total resting size of a side (ids are unique in the live book, so the orders
\* of a book form a set).
Resting(book, side) == SumOver(OnSide(book, side))

\* The size the order with this id has in the book, 0 when it is not there.
RemainingSize(book, id) ==
    IF \E o \in Orders(book) : o.id = id
    THEN (CHOOSE o \in Orders(book) : o.id = id).size
    ELSE 0

\* The book is uncrossed: every buy is priced strictly below every sell.
Uncrossed(book) ==
    \A b \in OnSide(book, "buy") : \A a \in OnSide(book, "sell") : b.price < a.price

\* Best price first, earlier id first.
Better(a, b) ==
    IF a.side = "buy"
    THEN a.price > b.price \/ (a.price = b.price /\ a.id <= b.id)
    ELSE a.price < b.price \/ (a.price = b.price /\ a.id <= b.id)
BestOf(book, side) ==
    CHOOSE o \in OnSide(book, side) : \A x \in OnSide(book, side) : Better(o, x)

\* The book the k-th iteration of the pass left behind.
BookAfter(k) == IF k < Len(crossed) THEN crossed[k + 1].book ELSE order_book

\* The trades the pass has appended so far.
PassTrades == SubSeq(trade_history, Len(pre.trade_history) + 1, Len(trade_history))

RECURSIVE SumTrades(_)
SumTrades(s) == IF s = <<>> THEN 0 ELSE s[1].size + SumTrades(Tail(s))

\* C1: a call of simulate_market_order (book=None) or calculate_price_impact,
\* whatever its side and quantity, returns with the live order book, the id
\* allocator, the trade log and the tick counter exactly as it found them.
C1_QueriesDoNotMutate ==
    last.op \in Queries => Snap = pre

C1_Witness ==
    /\ last.op = "simulate_market_order"
    /\ ret.executed_size > 0
    /\ trade_history # <<>>
    /\ order_book # <<>>

\* C2 (as claimed): the live book never holds an order whose size is <= 0.
C2_NoNonPositiveSize ==
    AllPositive(order_book)

\* C3 (as claimed): place_order of an order whose size is <= 0 fails with
\* InvalidOrder and appends nothing.
C3_PlaceRejectsInvalid ==
    (last.op = "place_order" /\ last.quantity <= 0)
        => (ret = "InvalidOrder" /\ order_book = pre.order_book)

\* C4: when _match_orders returns, and so when step returns, the book is
\* uncrossed: no buy, or no sell, or the highest buy price is strictly below the
\* lowest sell price.
C4_SettledOnReturn ==
    last.op \in PassOps => Uncrossed(order_book)

C4_Witness ==
    /\ last.op = "step"
    /\ ~Uncrossed(pre.order_book)
    /\ crossed # <<>>
    /\ order_book # <<>>

\* C5: every trade a matching pass appends has the size min(best buy size, best
\* sell size) and the price (best buy price + best sell price) / 2 of the two
\* orders the iteration found best, carries the current tick, and both orders
\* are left with their size reduced by exactly the trade size.
C5_CrossingRule ==
    InPass =>
        /\ Len(PassTrades) = Len(crossed)
        /\ \A k \in 1..Len(crossed) :
            LET book == crossed[k].book
                trade == crossed[k].trade
                best_buy == BestOf(book, "buy")
                best_sell == BestOf(book, "sell")
            IN  /\ PassTrades[k] = trade
                /\ trade.size = IF best_sell.size < best_buy.size
                                THEN best_sell.size ELSE best_buy.size
                /\ 2 * trade.price = best_buy.price + best_sell.price
                /\ trade.tick = tick
                /\ RemainingSize(BookAfter(k), best_buy.id) = best_buy.size - trade.size
                /\ RemainingSize(BookAfter(k), best_sell.id) = best_sell.size - trade.size

C5_Witness ==
    /\ last.op = "step"
    /\ \E k \in 1..Len(crossed) :
        /\ crossed[k].trade = [price |-> 3, size |-> 1, tick |-> 1]
        /\ BestOf(crossed[k].book, "buy").size = 2
        /\ RemainingSize(BookAfter(k), BestOf(crossed[k].book, "buy").id) = 1

\* C6: over a matching pass that starts from a book of positive sizes, the sizes
\* of the trades appended add up to the decrease of total resting buy size and
\* to the decrease of total resting sell size.
C6_Conservation ==
    (InPass /\ AllPositive(pre.order_book)) =>
        /\ SumTrades(PassTrades)
              = Resting(pre.order_book, "buy") - Resting(order_book, "buy")
        /\ SumTrades(PassTrades)
              = Resting(pre.order_book, "sell") - Resting(order_book, "sell")

C6_Witness ==
    /\ last.op = "_match_orders"
    /\ AllPositive(pre.order_book)
    /\ Len(PassTrades) = 2
    /\ SumTrades(PassTrades) = 2
    /\ Resting(pre.order_book, "sell") = 3
    /\ Resting(order_book, "sell") = 1

\* C7: time priority.  Neither an iteration of a matching pass nor a market sweep
\* reduces an order while another order of the same side and price with a
\* smaller id stays in the book.
Reduced(before, after) ==
    {o \in Orders(before) : RemainingSize(after, o.id) < o.size}
TimePriority(before, after) ==
    \A o \in Reduced(before, after) : \A x \in Orders(after) :
        (x.side = o.side /\ x.price = o.price) => x.id >= o.id

C7_TimePriority ==
    /\ InPass => \A k \in 1..Len(crossed) : TimePriority(crossed[k].book, BookAfter(k))
    /\ last.op = "execute_market_order" => TimePriority(pre.order_book, order_book)

\* Sells A (size 1) then B (size 2) at one price against a buy of 2: trades of
\* sizes 1, 1 and only B left, with size 1.
C7_Witness ==
    /\ last.op = "_match_orders"
    /\ Len(crossed) = 2
    /\ crossed[1].trade.size = 1
    /\ crossed[2].trade.size = 1
    /\ \E a, b \in OnSide(pre.order_book, "sell") :
        /\ a.id < b.id /\ a.price = b.price /\ a.size = 1 /\ b.size = 2
        /\ Orders(order_book) = {[b EXCEPT !.size = 1]}

\* C8: price priority.  Every iteration of a matching pass crosses the
\* highest-priced buy with the lowest-priced sell in the book, so along one pass
\* the sell prices traded against never fall and the buy prices never rise.
BestPrice(book, side) == BestOf(book, side).price

C8_PricePriority ==
    InPass =>
        /\ \A k \in 1..Len(crossed) :
            /\ \A o \in Reduced(crossed[k].book, BookAfter(k)) :
                o.price = BestPrice(crossed[k].book, o.side)
            /\ 2 * crossed[k].trade.price
                  = BestPrice(crossed[k].book, "buy") + BestPrice(crossed[k].book, "sell")
        /\ \A k \in 1..(Len(crossed) - 1) :
            /\ BestPrice(crossed[k].book, "sell") <= BestPrice(crossed[k + 1].book, "sell")
            /\ BestPrice(crossed[k].book, "buy") >= BestPrice(crossed[k + 1].book, "buy")

\* A buy at the higher price sweeps a sell at the lower and then a sell at the
\* higher price, and the book is left empty.
C8_Witness ==
    /\ last.op = "_match_orders"
    /\ Len(crossed) = 2
    /\ BestPrice(crossed[1].book, "sell") < BestPrice(crossed[2].book, "sell")
    /\ crossed[1].trade.price < crossed[2].trade.price
    /\ order_book = <<>>

\* C9: a matching pass terminates within as many iterations as the book held
\* orders when it started: every iteration removes at least one order.
C9_MatchingBounded ==
    InPass =>
        /\ Len(crossed) + Len(order_book) <= Len(pre.order_book)
        /\ \A k \in 1..Len(crossed) : Len(BookAfter(k)) < Len(crossed[k].book)

C9_Witness ==
    /\ last.op = "_match_orders"
    /\ Len(crossed) = 2
    /\ Len(pre.order_book) = 3
    /\ Len(order_book) = 1

\* C10: execute_market_order(side, q), q >= 0, on a book of positive sizes
\* returns executed_size = min(q, total resting size of the opposite side) and
\* unfilled_size = q - executed_size.
C10_ExecutedAndUnfilled ==
    (/\ last.op = "execute_market_order"
     /\ last.quantity >= 0
     /\ AllPositive(pre.order_book)) =>
        LET available == Resting(pre.order_book, PassiveSide(last.side)) IN
        /\ ret.executed_size = IF available < last.quantity THEN available ELSE last.quantity
        /\ ret.unfilled_size = last.quantity - ret.executed_size
        /\ ret.executed_size + ret.unfilled_size = last.quantity
        /\ 0 <= ret.executed_size
        /\ ret.executed_size <= last.quantity

\* Asks of sizes 1 and 1 at two prices and a buy of 3: executed 2, unfilled 1,
\* no sell left.
C10_Witness ==
    /\ last.op = "execute_market_order"
    /\ last.side = "buy"
    /\ last.quantity = 3
    /\ Len(pre.order_book) = 2
    /\ \A o \in Orders(pre.order_book) : o.side = "sell" /\ o.size = 1
    /\ ret.executed_size = 2
    /\ ret.unfilled_size = 1
    /\ order_book = <<>>

\* C11 (as claimed): the vwap a market sweep (executed or simulated) returns is
\* (sum over the consumed orders of taken size x price) / executed_size when
\* executed_size > 0, and is the absent value exactly when executed_size = 0.
Sweeps == {"execute_market_order", "simulate_market_order"}
SweptBook == IF last.op = "simulate_market_order" THEN ret.book ELSE order_book

RECURSIVE NotionalOver(_, _)
NotionalOver(S, after) ==
    IF S = {} THEN 0
    ELSE LET o == CHOOSE x \in S : TRUE
         IN  (o.size - RemainingSize(after, o.id)) * o.price
                + NotionalOver(S \ {o}, after)

\* Sum over the orders of `before` of the size taken from them times their price.
Notional(before, after) == NotionalOver(Orders(before), after)

C11_VwapOrAbsent ==
    last.op \in Sweeps =>
        /\ (ret.vwap = Absent) <=> (ret.executed_size = 0)
        /\ ret.executed_size > 0 =>
              /\ ret.vwap.den > 0
              /\ ret.vwap.num * ret.executed_size
                    = Notional(pre.order_book, SweptBook) * ret.vwap.den

\* C12 (as claimed): after execute_market_order(side, q), q > 0, at most one
\* order of the opposite side is left partially filled; every opposite-side
\* order with better priority than it is gone from the book, and every
\* opposite-side order with worse priority has its original size.
InBook(book, id) == \E o \in Orders(book) : o.id = id
Before(a, b) ==
    IF a.side = "buy"
    THEN a.price > b.price \/ (a.price = b.price /\ a.id < b.id)
    ELSE a.price < b.price \/ (a.price = b.price /\ a.id < b.id)
PartlyFilled(before, after, side) ==
    {o \in OnSide(before, side) :
        InBook(after, o.id) /\ RemainingSize(after, o.id) < o.size}

C12_GreedyPriorityOrder ==
    (last.op = "execute_market_order" /\ last.quantity > 0) =>
        LET opposite == OnSide(pre.order_book, PassiveSide(last.side))
            partly == PartlyFilled(pre.order_book, order_book, PassiveSide(last.side))
        IN  /\ Cardinality(partly) <= 1
            /\ \A p \in partly : \A o \in opposite :
                /\ Before(o, p) => ~InBook(order_book, o.id)
                /\ Before(p, o) => RemainingSize(order_book, o.id) = o.size

\* C13: from every reachable live book, for every side and quantity,
\* simulate_market_order(side, q) returns the executed_size, unfilled_size and
\* vwap that execute_market_order(side, q) returns on that book, and its 'book'
\* is the live book that execution leaves behind.
C13_SimulationAgrees ==
    /\ last.op = "simulate_market_order" =>
          ret = ExecuteSweep(pre.order_book, last.side, last.quantity)
    /\ last.op = "execute_market_order" =>
          LET sim == SimulateSweep(pre.order_book, last.side, last.quantity)
          IN  /\ ret.executed_size = sim.executed_size
              /\ ret.unfilled_size = sim.unfilled_size
              /\ ret.vwap = sim.vwap
              /\ order_book = sim.book

\* A simulated sweep over two price levels that empties the better one and takes
\* part of the other.
C13_Witness ==
    /\ last.op = "simulate_market_order"
    /\ ret.executed_size = 2
    /\ ret.unfilled_size = 0
    /\ \E a, b \in OnSide(pre.order_book, PassiveSide(last.side)) :
        /\ a.id < b.id
        /\ Before(b, a)
        /\ ~InBook(ret.book, b.id)
        /\ RemainingSize(ret.book, a.id) = 1
    /\ order_book = pre.order_book

\* C14: whenever the live book has no buy order or no sell order,
\* calculate_price_impact returns exactly 0, for every side and quantity.
Zero == Frac(0, 1)
NoMid(book) == OnSide(book, "buy") = {} \/ OnSide(book, "sell") = {}

C14_NoMidIsZero ==
    (last.op = "calculate_price_impact" /\ NoMid(pre.order_book)) => ret = Zero

\* Asks only, and a buy that would fill.
C14_Witness ==
    /\ last.op = "calculate_price_impact"
    /\ last.side = "buy"
    /\ last.quantity > 0
    /\ OnSide(pre.order_book, "buy") = {}
    /\ Resting(pre.order_book, "sell") >= last.quantity
    /\ ret = Zero

\* C15: calculate_price_impact returns 0 whenever the simulated sweep fills
\* nothing, also when both sides of the book are non-empty.
C15_NoFillIsZero ==
    (/\ last.op = "calculate_price_impact"
     /\ SimulateSweep(pre.order_book, last.side, last.quantity).executed_size = 0)
        => ret = Zero

\* Both sides hold a positive size, and the quantity is 0.
C15_Witness ==
    /\ last.op = "calculate_price_impact"
    /\ last.quantity = 0
    /\ Resting(pre.order_book, "buy") > 0
    /\ Resting(pre.order_book, "sell") > 0
    /\ ret = Zero

\* C16: when both sides of the live book are non-empty and the sweep fills a
\* positive quantity, calculate_price_impact(side, q) is (avg/mid - 1) x 10000
\* for a buy and (1 - avg/mid) x 10000 for a sell, mid being (highest buy price
\* + lowest sell price) / 2 and avg the vwap simulate_market_order(side, q)
\* reports on the same book.
C16_ImpactFormula ==
    LET sim == SimulateSweep(pre.order_book, last.side, last.quantity) IN
    (/\ last.op = "calculate_price_impact"
     /\ ~NoMid(pre.order_book)
     /\ sim.executed_size > 0) =>
        LET twice_mid == BestPrice(pre.order_book, "buy") + BestPrice(pre.order_book, "sell")
            avg == sim.vwap
        IN  /\ ret.den # 0
            /\ last.side = "buy" =>
                  ret.num * (avg.den * twice_mid)
                    = ret.den * ((2 * avg.num - avg.den * twice_mid) * 10000)
            /\ last.side = "sell" =>
                  ret.num * (avg.den * twice_mid)
                    = ret.den * ((avg.den * twice_mid - 2 * avg.num) * 10000)

\* A bid at 1 tick, asks at 1 and 2 ticks of size 1 each, a buy of 2: the average
\* is 1.5 ticks, the mid 1 tick, the impact 5000 bps.
C16_Witness ==
    /\ last.op = "calculate_price_impact"
    /\ last.side = "buy"
    /\ last.quantity = 2
    /\ ~NoMid(pre.order_book)
    /\ BestPrice(pre.order_book, "buy") = 2
    /\ BestPrice(pre.order_book, "sell") = 2
    /\ ret.num = 5000 * ret.den

\* C17: get_cumulative_depth returns, per side, exactly one level per distinct
\* price resting on that side, best price first (buys descending, sells
\* ascending); the cumulative size of a level is the total size of the orders of
\* that side priced at or better than the level; an empty book gives no level.
LevelsOf(rows, side) == SelectSeq(rows, LAMBDA r : r.side = side)
AtOrBetter(side, price, level) ==
    IF side = "buy" THEN price >= level ELSE price <= level

C17_CumulativeDepth ==
    last.op = "get_cumulative_depth" =>
        /\ pre.order_book = <<>> => ret = <<>>
        /\ \A r \in {ret[k] : k \in 1..Len(ret)} : r.side \in Sides
        /\ \A side \in Sides :
            LET levels == LevelsOf(ret, side)
                resting == OnSide(pre.order_book, side)
            IN  /\ {levels[k].price : k \in 1..Len(levels)} = {o.price : o \in resting}
                /\ Len(levels) = Cardinality({o.price : o \in resting})
                /\ \A k \in 1..(Len(levels) - 1) :
                      /\ levels[k].price # levels[k + 1].price
                      /\ AtOrBetter(side, levels[k].price, levels[k + 1].price)
                /\ \A k \in 1..Len(levels) :
                      levels[k].cum_size
                        = SumOver({o \in resting :
                                     AtOrBetter(side, o.price, levels[k].price)})

\* Two buys at the better price and one at the worse: two buy levels, the first
\* carrying the two sizes, the second all three.
C17_Witness ==
    /\ last.op = "get_cumulative_depth"
    /\ Len(pre.order_book) = 3
    /\ ret = << [side |-> "buy", price |-> 4, cum_size |-> 3],
                [side |-> "buy", price |-> 2, cum_size |-> 4] >>

\* C18 (as claimed): in every reachable state, along the levels of one side in
\* the output of get_cumulative_depth, the cumulative size never decreases.
C18_DepthMonotone ==
    last.op = "get_cumulative_depth" =>
        \A side \in Sides :
            LET levels == LevelsOf(ret, side)
            IN  \A k \in 1..(Len(levels) - 1) :
                    levels[k].cum_size <= levels[k + 1].cum_size

\* C19: a step first advances the tick and the reference value, then invokes
\* on_tick of every bot registered when the step started exactly once, in
\* registration order, and runs the matching pass only after the last callback:
\* between the callbacks of one tick nothing is matched, and the book changes
\* only by what the bots themselves place or sweep.
Upto(n) == [k \in 1..n |-> k]

CallbacksInOrder ==
    /\ pc = "bots" => /\ called = Upto(Min(cur, step_bots))
                      /\ Len(true_history) = tick + 1
    /\ (pc = "match" /\ instep) => called = Upto(step_bots)
    /\ last.op = "step" => called = Upto(step_bots)

TickOrder ==
    /\ (pc = "idle" /\ pc' = "bots") =>
          /\ tick' = tick + 1
          /\ true_history' = Append(true_history, true_price')
          /\ step_bots' = bots
          /\ order_book' = order_book
          /\ trade_history' = trade_history
    /\ (pc = "bots" /\ pc' = "bots") =>
          /\ tick' = tick
          /\ trade_history' = trade_history
          /\ step_bots' = step_bots
          /\ called' = called \/ called' = Append(called, Len(called) + 1)
          /\ order_book' # order_book =>
                last'.op \in {"place_order", "execute_market_order"}
    /\ (pc # "match" /\ pc' = "match") =>
          /\ pc = "bots"
          /\ called = Upto(step_bots)
          /\ order_book' = order_book
    /\ trade_history' # trade_history => pc = "match"

C19_TickOrdering == [](CallbacksInOrder) /\ [][TickOrder]_vars

\* The second bot of a tick sweeps a book that the first bot's quotes of this
\* tick have left crossed.
C19_Witness ==
    /\ pc = "bots"
    /\ tick = 1
    /\ called = <<1, 2>>
    /\ last.op = "execute_market_order"
    /\ ret.executed_size > 0
    /\ ~Uncrossed(pre.order_book)
    /\ trade_history = <<>>

\* C20: when a bot's on_tick raises during a step, the bots after it are still
\* invoked exactly once, the matching pass still runs to settlement, and step
\* returns normally.
C20_FaultContainment ==
    raised > 0 =>
        /\ instep \/ last.op = "step"
        /\ pc = "idle" =>
              /\ ret = None
              /\ called = Upto(step_bots)
              /\ Uncrossed(order_book)

\* The first of two bots posts a quote and raises; the second is invoked, its
\* quote crosses the first one's, and the pass trades them.
C20_Witness ==
    /\ last.op = "step"
    /\ raised = 1
    /\ called = <<1, 2>>
    /\ crossed # <<>>
    /\ ~Uncrossed(pre.order_book)

\* C21 (as claimed): when a callback has failed during a step, the failure can
\* be seen once step has returned.  The engine has no field that could hold it
\* (its fields are the variables above, the same whether the callback returned
\* or raised), so it would have to be in what step returns.
C21_FailureReported ==
    (last.op = "step" /\ raised > 0) => ret # None

\* C28: no aliasing of live orders. A write to a dict the caller holds (the
\* record it passed to place_order or load_snapshot, an order of a book it
\* passed to simulate_market_order, an order of the book simulate_market_order
\* returned) never changes the live book; and simulate_market_order leaves the
\* book it was given, and the live book, as they were.
WritesArePrivate ==
    last'.op = "write" => order_book' = order_book

SimulationKeepsBook ==
    last'.op = "simulate_market_order_book" =>
        /\ held'.given = held.got
        /\ order_book' = order_book

C28_NoAliasing == [][WritesArePrivate /\ SimulationKeepsBook]_vars

\* The caller has changed the size of a dict it holds while the live book has
\* an order with the size that dict had.
C28_Witness ==
    /\ last.op = "write"
    /\ order_book # <<>>
    /\ \E part \in HeldParts : \E k \in 1..Len(held[part]) :
          \E o \in Orders(order_book) :
              /\ o.side = held[part][k].order.side
              /\ o.price = held[part][k].order.price
              /\ o.size # held[part][k].order.size

\* C29: engine instances are isolated. Each engine has its own id allocator,
\* starting at 0 and above the ids of its own book; and every operation on one
\* engine, a step that runs a bot registered on both engines included, leaves
\* the other engine's order book, id allocator, trade log and tick as they
\* were (the other engine's fields change only by the driver's turning to it).
OwnAllocators ==
    /\ \A o \in Orders(order_book) : o.id < order_id
    /\ \A o \in Orders(other.order_book) : o.id < other.order_id
    /\ (order_id = 0) = (order_book = <<>> /\ trade_history = <<>>)
    /\ (other.order_id = 0) = (other.order_book = <<>> /\ other.trade_history = <<>>)

OtherUntouched ==
    \/ other' = other
    \/ other' = Self /\ Self' = other

C29_EnginesIsolated == [](OwnAllocators) /\ [][OtherUntouched]_vars

\* A step of one engine has run a bot that is registered on both and has
\* matched a trade, while the other engine holds orders of its own, ids from 0.
C29_Witness ==
    /\ last.op = "step"
    /\ bots >= 1
    /\ other.bots >= 1
    /\ called # <<>>
    /\ trade_history # <<>>
    /\ other.order_book # <<>>
    /\ other.trade_history = <<>>
    /\ other.tick = 0
    /\ InBook(other.order_book, 0)
    /\ order_id = MaxBotIds

\* C30: in the reference scenario (reference value 100, asks 105x1, 106x2,
\* 107x3, a MarketMaker of spread 1, size 1, jitter 0 registered before the
\* execution bot) a SplittingBot buying 6 in 6 slices over 6 ticks executes
\* something and has an impact (average execution price / end-of-run mid - 1)
\* x 10000 strictly below calculate_price_impact('buy', 6) on the initial book
\* of the identical engine that was not stepped.
RECURSIVE SumExecuted(_)
SumExecuted(execs) ==
    IF execs = <<>> THEN 0
    ELSE execs[1].executed_size + SumExecuted(Tail(execs))

\* sum((r['vwap'] or 0.0) * r['executed_size'])
RECURSIVE SumCost(_)
SumCost(execs) ==
    IF execs = <<>> THEN 0
    ELSE (IF execs[1].vwap = Absent THEN 0
          ELSE (execs[1].vwap.num * execs[1].executed_size) \div execs[1].vwap.den)
         + SumCost(Tail(execs))

\* impact_split_bps of the test, the mid taken twice to stay in integers.
ImpactSplit ==
    IF NoMid(order_book) THEN Zero
    ELSE LET mid2 == BestPrice(order_book, "buy") + BestPrice(order_book, "sell")
             n == SumExecuted(sb.executions)
         IN  Normal(Frac((2 * SumCost(sb.executions) - n * mid2) * BPS, n * mid2))

FracLess(f, g) == f.num * g.den < g.num * f.den

ReferenceRun ==
    /\ sb.total = TotalSize
    /\ tick = Ticks
    /\ other.order_book = AsksOf(AskSizes)

C30_SplittingReducesImpact ==
    ReferenceRun =>
        /\ SumExecuted(sb.executions) > 0
        /\ FracLess(ImpactSplit, PriceImpact(other.order_book, "buy", TotalSize))

\* The reference run has ended: six slices of 1 bought at 100.5, the three
\* asks untouched, the market maker's six bids resting.
C30_Witness ==
    /\ ReferenceRun
    /\ Len(sb.executions) = Slices
    /\ SumExecuted(sb.executions) = TotalSize
    /\ SumCost(sb.executions) = TotalSize * (RefPrice + MMSpread \div 2)
    /\ ~sb.active
    /\ ~NoMid(order_book)
    /\ order_id = 3 + 2 * Ticks

\* C22: each call of step raises the tick by exactly 1 and appends exactly one
\* value, the new reference value, to the reference history; nothing else
\* changes the tick, the reference value or its history; so in every state
\* len(true_history) = tick + 1 and the last element is true_price.
HistoryFollowsTick ==
    /\ Len(true_history) = tick + 1
    /\ true_history[Len(true_history)] = true_price

StepAdvances ==
    LET stepping == pc = "idle" /\ pc' = "bots"
        advanced == /\ tick' = tick + 1
                    /\ true_history' = Append(true_history, true_price')
    IN  /\ stepping => advanced
        /\ (tick' # tick \/ true_history' # true_history \/ true_price' # true_price)
              => (stepping /\ advanced)

C22_TickAndHistory == [](HistoryFollowsTick) /\ [][StepAdvances]_vars

\* A step that has matched a trade has returned: tick 1, two history values.
C22_Witness ==
    /\ last.op = "step"
    /\ tick = 1
    /\ true_history = <<InitPrice, true_price>>
    /\ true_price # InitPrice
    /\ crossed # <<>>

\* C23: sequence ids are unique and never reused. No two orders of the live
\* book share an id and the allocator is above every id in the book; the
\* allocator never goes down; and every order inserted by place_order or
\* load_snapshot gets an id at or above the allocator as it stood before the
\* call (so above every id assigned earlier, purged and discarded ones
\* included), the ids of one snapshot increasing in input order.
IdsUnique ==
    \A i, j \in 1..Len(order_book) :
        order_book[i].id = order_book[j].id => i = j

IdsBelowAllocator ==
    \A o \in Orders(order_book) : o.id < order_id

Inserted(op, book) ==
    IF op = "load_snapshot" THEN 1..Len(book)
    ELSE IF op = "place_order" THEN {Len(book)}
    ELSE {}

IdsFresh ==
    /\ order_id' >= order_id
    /\ (last = NoCall /\ last' # NoCall) =>
          LET new == Inserted(last'.op, order_book') IN
          /\ \A k \in new : /\ order_book'[k].id >= order_id
                            /\ order_book'[k].id < order_id'
          /\ \A i, j \in new : i < j => order_book'[i].id < order_book'[j].id

C23_IdsNeverReused == [](IdsUnique /\ IdsBelowAllocator) /\ [][IdsFresh]_vars

\* A snapshot has replaced a book whose orders held ids, and after earlier ids
\* had already left the book.
C23_Witness ==
    /\ last.op = "load_snapshot"
    /\ pre.order_book # <<>>
    /\ pre.order_id > Len(pre.order_book)
    /\ order_book # <<>>

\* C24: load_snapshot(orders) discards every previously live order and leaves
\* one order per input record, with the record's side, price and size, ids
\* increasing in input order; two records at the same side and price keep
\* their input order in the sorted book.
PositionOf(seq, id) == CHOOSE k \in 1..Len(seq) : seq[k].id = id

C24_SnapshotReplaces ==
    last.op = "load_snapshot" =>
        LET snapshot == last.snapshot IN
        /\ Len(order_book) = Len(snapshot)
        /\ \A k \in 1..Len(snapshot) :
              /\ order_book[k].side = snapshot[k].side
              /\ order_book[k].price = snapshot[k].price
              /\ order_book[k].size = snapshot[k].size
              /\ ~InBook(pre.order_book, order_book[k].id)
        /\ \A i, j \in 1..Len(snapshot) :
              i < j =>
                /\ order_book[i].id < order_book[j].id
                /\ (snapshot[i].side = snapshot[j].side
                      /\ snapshot[i].price = snapshot[j].price) =>
                     LET s == sorted_book(order_book, snapshot[i].side) IN
                     PositionOf(s, order_book[i].id) < PositionOf(s, order_book[j].id)

\* Two records at one side and price were loaded over a book that held orders.
C24_Witness ==
    /\ last.op = "load_snapshot"
    /\ pre.order_book # <<>>
    /\ Len(order_book) = 2
    /\ order_book[1].side = order_book[2].side
    /\ order_book[1].price = order_book[2].price
    /\ order_book[1].size # order_book[2].size

\* C25: place_order does no matching. The call appends exactly one order, with
\* the next sequence id, and leaves every other order, the trade log, the tick
\* and the reference value as they were, even when the new order crosses the
\* other side of the book.
PlaceOnlyAppends ==
    (last = NoCall /\ last'.op = "place_order") =>
        /\ Len(order_book') = Len(order_book) + 1
        /\ SubSeq(order_book', 1, Len(order_book)) = order_book
        /\ order_book'[Len(order_book')].id = order_id
        /\ order_book'[Len(order_book')].side = last'.side
        /\ order_book'[Len(order_book')].size = last'.quantity
        /\ order_id' = order_id + 1
        /\ UNCHANGED <<trade_history, tick, true_price, true_history>>

C25_PlaceDoesNotMatch == [][PlaceOnlyAppends]_vars

\* The order placed crosses a book that was uncrossed, and rests with it.
C25_Witness ==
    /\ last.op = "place_order"
    /\ pre.order_book # <<>>
    /\ Uncrossed(pre.order_book)
    /\ ~Uncrossed(order_book)
    /\ AllPositive(order_book)
    /\ trade_history = pre.trade_history

\* C26 (as claimed): in every state reachable through place_order,
\* load_snapshot, execute_market_order and step, every record of the trade log
\* has a size > 0.
C26_TradeSizesPositive ==
    \A k \in 1..Len(trade_history) : trade_history[k].size > 0

\* C27: the trade log is append-only (along every step of the engine the old
\* log is a prefix of the new one), the ticks of its records never decrease
\* along the log, and none exceeds the tick counter.
IsPrefix(s, t) == Len(s) <= Len(t) /\ SubSeq(t, 1, Len(s)) = s

TradeTicksOrdered ==
    /\ \A k \in 1..Len(trade_history) : trade_history[k].tick <= tick
    /\ \A k \in 1..(Len(trade_history) - 1) :
          trade_history[k].tick <= trade_history[k + 1].tick

C27_AppendOnlyLog ==
    [](TradeTicksOrdered) /\ [][IsPrefix(trade_history, trade_history')]_vars

\* A trade matched before the first step, and another matched by that step.
C27_Witness ==
    /\ Len(trade_history) = 2
    /\ trade_history[1].tick = 0
    /\ trade_history[2].tick = 1
    /\ last.op = "step"

\* C34: execute_market_order(side, q) changes only opposite-side orders. On a
\* book of positive sizes it leaves every order of the aggressor's own side as
\* it was, appends nothing to the trade log, and leaves the tick, the reference
\* value and the id allocator unchanged.
SweepFrame ==
    (last = NoCall /\ last'.op = "execute_market_order" /\ AllPositive(order_book)) =>
        /\ SideOrders(order_book', last'.side) = SideOrders(order_book, last'.side)
        /\ UNCHANGED <<trade_history, tick, true_price, true_history, order_id>>

C34_SweepTouchesOppositeOnly == [][SweepFrame]_vars

\* A sweep has taken from the other side of a book that holds an order of the
\* aggressor's side, after a step moved the reference value.
C34_Witness ==
    /\ last.op = "execute_market_order"
    /\ ret.executed_size > 0
    /\ AllPositive(pre.order_book)
    /\ OnSide(order_book, last.side) # {}
    /\ order_book # pre.order_book
    /\ tick = 1

\* C35: in an uncrossed book with both sides non-empty and positive sizes
\* (highest buy price <= lowest sell price) calculate_price_impact(side, q) is
\* >= 0 for both sides and every q, and > 0 for a buy that fills a positive
\* quantity when the best bid is strictly below the best ask.
UncrossedOrEqual(book) ==
    \A b \in OnSide(book, "buy") : \A a \in OnSide(book, "sell") : b.price <= a.price

FracLeq(f, g) == f.num * g.den <= g.num * f.den

RECURSIVE SideTotal(_, _)
SideTotal(book, side) ==
    IF book = <<>> THEN 0
    ELSE (IF book[1].side = side THEN book[1].size ELSE 0) + SideTotal(Tail(book), side)

\* C32: a simulated sweep of any quantity >= 0 on any supplied book of orders
\* of size > 0, whatever ids they carry, returns a book whose passive-side
\* total is the supplied passive-side total minus executed_size, and whose
\* orders on the taker's own side are the supplied ones, unchanged.
C32_SimulationConserves ==
    last.op = "simulate_market_order_given" =>
        /\ SideTotal(ret.book, PassiveSide(last.side))
              = SideTotal(last.book, PassiveSide(last.side)) - ret.executed_size
        /\ SideOrders(ret.book, last.side) = SideOrders(last.book, last.side)

DistinctIds(book) ==
    \A i, j \in 1..Len(book) : book[i].id = book[j].id => i = j

\* The statement of C32 on the books whose orders carry distinct ids.
C32_ConservesOnDistinctIds ==
    (last.op = "simulate_market_order_given" /\ DistinctIds(last.book)) =>
        /\ SideTotal(ret.book, PassiveSide(last.side))
              = SideTotal(last.book, PassiveSide(last.side)) - ret.executed_size
        /\ SideOrders(ret.book, last.side) = SideOrders(last.book, last.side)

SweepNotional(result) ==
    IF result.vwap = Absent THEN 0
    ELSE (result.vwap.num * result.executed_size) \div result.vwap.den

\* C33: on a book of orders of size > 0 with distinct ids, a simulated sweep
\* of q1 followed by one of q2 on the returned book executes the same total
\* size for the same total notional, and leaves the same book, as a single
\* simulated sweep of q1 + q2 on the original book.
C33_ChainedSweepsCompose ==
    (/\ last.op = "simulate_market_order_chained"
     /\ last.side = last.first.side
     /\ DistinctIds(last.first.book)) =>
        LET once == SimulateSweep(last.first.book, last.side,
                                  last.first.quantity + last.quantity)
        IN  /\ last.first_ret.executed_size + ret.executed_size = once.executed_size
            /\ SweepNotional(last.first_ret) + SweepNotional(ret) = SweepNotional(once)
            /\ ret.book = once.book

\* both legs execute, the second finishing one order and starting the next
C33_Witness ==
    /\ last.op = "simulate_market_order_chained"
    /\ last.side = last.first.side
    /\ DistinctIds(last.first.book)
    /\ Len(last.first.book) = 2
    /\ last.first_ret.executed_size = 1
    /\ ret.executed_size = 2
    /\ Len(ret.book) = 1
    /\ last.first_ret.vwap # ret.vwap

\* the quotient remaining / slices-left the bot computes is a whole number of
\* parts, so the model's integer division is the code's division
SliceIsExact ==
    (sb.active /\ sb.remaining > 0) =>
        sb.remaining % (IF sb.slices - sb.slice > 1 THEN sb.slices - sb.slice ELSE 1) = 0

SplitterBounded ==
    /\ sb.remaining >= 0
    /\ SumExecuted(sb.executions) <= sb.total
    /\ Len(sb.executions) <= tick

SplitterTickBounded ==
    /\ Len(sb'.executions) <= Len(sb.executions) + 1
    /\ ~sb.active => sb'.executions = sb.executions
    /\ Len(sb'.executions) = Len(sb.executions) + 1 =>
          LET res == sb'.executions[Len(sb'.executions)]
          IN  res.executed_size + res.unfilled_size <= sb.remaining

C38_SplitterTerminates ==
    (bots = 1 /\ sb.slices >= 1 /\ tick >= sb.slices) =>
        /\ ~sb.active
        /\ (\A k \in 1..Len(sb.executions) : sb.executions[k].unfilled_size = 0) =>
              /\ Len(sb.executions) = sb.slices
              /\ \A k \in 1..Len(sb.executions) :
                    sb.executions[k].executed_size * sb.slices = sb.total
              /\ sb.remaining = 0

\* The statement of C38 for a total above zero.
C38_TerminatesOnPositiveTotal ==
    (bots = 1 /\ sb.slices >= 1 /\ tick >= sb.slices /\ sb.total > 0) =>
        /\ ~sb.active
        /\ (\A k \in 1..Len(sb.executions) : sb.executions[k].unfilled_size = 0) =>
              /\ Len(sb.executions) = sb.slices
              /\ \A k \in 1..Len(sb.executions) :
                    sb.executions[k].executed_size * sb.slices = sb.total
              /\ sb.remaining = 0

\* half of the size the bot sees is a whole number of parts, so the model's
\* integer division is the code's product
TargetIsExact ==
    (bots = 1 /\ sb.active /\ tick < MaxAdaptTicks) =>
        (Aggressiveness.num * BestVisibleLiquidity(order_book, sb.side))
            % Aggressiveness.den = 0

Asked(res) == res.executed_size + res.unfilled_size

AdaptiveAskedInBounds ==
    Len(sb'.executions) = Len(sb.executions) + 1 =>
        LET q == Asked(sb'.executions[Len(sb'.executions)])
        IN  /\ sb.min_slice <= q
            /\ q <= sb.max_slice
            /\ q <= sb.remaining

AtBestOpposite(book, side) ==
    LET S == OnSide(book, PassiveSide(side))
    IN  IF S = {} THEN 0
        ELSE SumOver({o \in S : o.price = BestPrice(book, PassiveSide(side))})

AdaptiveAskedIsClipped ==
    Len(sb'.executions) = Len(sb.executions) + 1 =>
        LET q == Asked(sb'.executions[Len(sb'.executions)])
            den == Aggressiveness.den
            target == Aggressiveness.num * AtBestOpposite(order_book, sb.side)
        IN  /\ q * den = Min(Min(Larger(sb.min_slice * den, target),
                                 sb.max_slice * den),
                             sb.remaining * den)
            /\ q <= sb.max_slice
            /\ q <= sb.remaining
            /\ (sb.min_slice <= sb.max_slice /\ sb.min_slice <= sb.remaining)
                  => sb.min_slice <= q

IsExtreme(price) == price > ExtremeOffset \div 4 \/ price < 0 - ExtremeOffset \div 4

RECURSIVE ExtremeSize(_)
ExtremeSize(trades) ==
    IF trades = <<>> THEN 0
    ELSE (IF IsExtreme(trades[1].price) THEN trades[1].size ELSE 0)
         + ExtremeSize(Tail(trades))

InformedSweeps ==
    (tick' = tick + 1 /\ order_id' = order_id + 1) =>
        LET side == sb.direction
            passive == OnSide(order_book, PassiveSide(side))
            left == OnSide(order_book', PassiveSide(side))
            limit == IF side = "buy" THEN true_price' + ExtremeOffset
                     ELSE true_price' - ExtremeOffset
            mine == {o \in Orders(order_book') : o.id = order_id}
            fresh == \A o \in Orders(order_book) : ~IsExtreme(o.price)
            trades == SubSeq(trade_history', Len(trade_history) + 1,
                             Len(trade_history'))
        IN  /\ left = {} \/ mine = {}
            /\ sb.size >= SumOver(passive) => left = {}
            /\ \A o \in mine : o.side = side /\ o.price = limit
            /\ fresh =>
                  /\ ExtremeSize(trades) = Min(sb.size, SumOver(passive))
                  /\ \A o \in mine : o.size = sb.size - SumOver(passive)
                  /\ sb.size > SumOver(passive) => mine # {}
                  /\ \A k \in 1..Len(trades) :
                        IsExtreme(trades[k].price) =>
                            \E o \in passive : 2 * trades[k].price = o.price + limit

\* C40: an InformedTrader that acts during a step with direction buy and
\* size S places a buy at the reference value + 1e6; after the step's
\* matching either no sell is left (always when S >= the total sell size, the
\* rest of the buy then resting in the book) or the buy is filled whole;
\* likewise for sell with the reference value - 1e6 and the buys; and every
\* trade of the order is priced halfway between the resting order's price
\* and the extreme limit price.
C40_InformedSweeps == [][InformedSweeps]_vars

\* the informed buy took every sell, at two prices, and its rest stays in the
\* book
C40_Witness ==
    /\ bots = 1
    /\ sb.direction = "buy"
    /\ OnSide(order_book, "sell") = {}
    /\ \E o \in Orders(order_book) : IsExtreme(o.price) /\ o.size = 1
    /\ Len(trade_history) = 2
    /\ trade_history[1].price # trade_history[2].price
    /\ IsExtreme(trade_history[1].price) /\ IsExtreme(trade_history[2].price)

\* total_cost / total_executed over a bot's executions, in lowest terms
RECURSIVE RunCost(_)
RunCost(execs) ==
    IF execs = <<>> THEN 0
    ELSE (IF execs[1].vwap = Absent THEN 0
          ELSE (Lowest(execs[1].vwap).num * execs[1].executed_size)
                   \div Lowest(execs[1].vwap).den)
         + RunCost(Tail(execs))

AvgPrice(run) ==
    Lowest(Frac(RunCost(run.bot.executions), SumExecuted(run.bot.executions)))

BenchOver ==
    /\ bots = 2
    /\ sb # NoBot
    /\ \A k \in 1..Len(Kinds) : RunOver(Kinds[k], sb[Kinds[k]])

\* C31: on the reference book (asks 105 x 1, 106 x 2, 107 x 3, reference
\* value 100, the market maker quoting before the bot, a buy of 6) the average
\* execution prices of the finished runs are ordered: GreedyLookaheadBot <=
\* GreedyAdaptiveBot <= AdaptiveSplittingBot <= SplittingBot.
C31_BotsOrdered ==
    (BenchOver /\ sb.splitting.asks = AskSizes) =>
        /\ \A kind \in KindSet : SumExecuted(sb[kind].bot.executions) > 0
        /\ FracLeq(AvgPrice(sb.lookahead), AvgPrice(sb.greedy))
        /\ FracLeq(AvgPrice(sb.greedy), AvgPrice(sb.adaptive))
        /\ FracLeq(AvgPrice(sb.adaptive), AvgPrice(sb.splitting))

\* the four reference runs are over: the SplittingBot after its 6 ticks, the
\* AdaptiveSplittingBot filled after 7, the two greedy bots still active after
\* 12 ticks with 12 tenths executed
C31_Witness ==
    /\ BenchOver
    /\ sb.splitting.asks = AskSizes
    /\ sb.splitting.tick = Ticks
    /\ sb.adaptive.tick = 7 /\ ~sb.adaptive.bot.active
    /\ sb.greedy.tick = BenchTicks /\ sb.greedy.bot.active
    /\ SumExecuted(sb.greedy.bot.executions) = 12
    /\ sb.lookahead.tick = BenchTicks /\ sb.lookahead.bot.active
    /\ SumExecuted(sb.lookahead.bot.executions) = 12
====
